---- MODULE Spec2Model ----
(***************************************************************************)
(* State-machine model of the zeromqtt bridge dispatch engine:             *)
(*   BridgeCore   (src/src/bridge/core.rs)   start / stop / restart /      *)
(*                                           reload_mappings               *)
(*   BridgeWorker (src/src/bridge/worker.rs) start_extended, the           *)
(*                forwarding task (Router), update_subscriptions, stop,    *)
(*                run_mqtt_worker, run_zmq_worker, matches_topic_pattern,  *)
(*                apply_mapping                                            *)
(*   Metrics      (src/src/telemetry/metrics.rs) record_*                  *)
(*   Repository   (src/src/db/repository.rs) topic_mappings and            *)
(*                message_stats tables                                     *)
(*   config API   (src/src/api/config.rs) add / update / delete mapping    *)
(*                                                                         *)
(* A topic is the sequence of its '/'-separated tokens.                    *)
(***************************************************************************)
EXTENDS Integers, Sequences, FiniteSets, TLC

(***************************************************************************)
(* Bounds of the model.                                                    *)
(***************************************************************************)
\* management-API calls issued in one behaviour
MaxOps == 2
\* transport messages delivered to the workers in one behaviour
MaxMsgs == 1
\* bytes of a topic or of a payload in the framing specification
MaxBytes == 2
\* mappings of the list a TopicMapper is built from
MaxMappings == 2
\* calls of record_latency in the reservoir specification
MaxSamples == 1002
\* capacity of the inbound channel in the backpressure specification (the
\* program's is FwdCapacity)
FwdSlots == 2
\* a capacity a bounded command channel could have (the program's command
\* channels have none)
CmdSlots == 2
\* management-API calls issued in the shutdown specification
MaxCalls == 3
\* messages received in a run of the stream specification
MaxBurst == 3

(***************************************************************************)
(* Program constants.                                                      *)
(***************************************************************************)
\* mpsc::channel::<ForwardMessage>(1000)
FwdCapacity == 1000
\* Metrics.latency_samples keeps the last 1000 samples (metrics.rs)
LatencyCapacity == 1000
\* b' ', the separator of a ZeroMQ frame (worker.rs)
SPACE == 32

Range(s) == { s[i] : i \in DOMAIN s }

\* a worker set (and its Router) is spawned by a start: at most one per call
Runs == 1 .. MaxOps
AllClients == {1, 2}
\* the management-API callers active under Spec (one call at a time)
Clients == {1}

(***************************************************************************)
(* Endpoint configuration held by the store (constant in the model).       *)
(***************************************************************************)
MqttConfigs ==
    << [id |-> 1, enabled |-> TRUE],
       [id |-> 4, enabled |-> FALSE] >>

ZmqConfigs ==
    << [id |-> 2, enabled |-> TRUE, socket_type |-> "XPub"],
       [id |-> 3, enabled |-> TRUE, socket_type |-> "XSub"] >>

\* ids of the endpoints start_extended spawns a worker for
MqttIds == {MqttConfigs[i].id : i \in {j \in DOMAIN MqttConfigs : MqttConfigs[j].enabled}}
ZmqIds == {ZmqConfigs[i].id : i \in {j \in DOMAIN ZmqConfigs : ZmqConfigs[j].enabled}}
WorkerIds == MqttIds \cup ZmqIds

SocketType(id) ==
    LET config == CHOOSE z \in Range(ZmqConfigs) : z.id = id
    IN  config.socket_type

(***************************************************************************)
(* Topics, payloads and the mapping requests the API may submit.           *)
(***************************************************************************)
Topics == { <<"a", "b">>, <<"a", "c">> }
Payloads == { "P" }
\* the topics of the frames a ZeroMQ publisher sends to an XSUB/SUB endpoint
ZmqTopics == { <<"a", "b">> }

\* a mapping request body (CreateMappingRequest)
Request(st, sid, tt, tid, source, target, dir, en) ==
    [source_endpoint_type |-> st, source_endpoint_id |-> sid,
     target_endpoint_type |-> tt, target_endpoint_id |-> tid,
     source_topic |-> source, target_topic |-> target,
     direction |-> dir, enabled |-> en]

\* broker 1, a/+  ->  XPUB endpoint 2, x/+
ToZmq == Request("Mqtt", 1, "Zmq", 2, <<"a", "+">>, <<"x", "+">>, "MqttToZmq", TRUE)
\* XSUB endpoint 3, #  ->  broker 1, y/#
ToMqtt(en) == Request("Zmq", 3, "Mqtt", 1, <<"#">>, <<"y", "#">>, "ZmqToMqtt", en)
\* broker 1, c  ->  XPUB endpoint 2, x
Moved == Request("Mqtt", 1, "Zmq", 2, <<"c">>, <<"x">>, "MqttToZmq", TRUE)

\* the bodies POST /mappings and PUT /mappings/{id} are called with
AddRequests == { ToMqtt(TRUE) }
UpdateRequests == { Moved }
\* the ids PUT /mappings/{id} and DELETE /mappings/{id} are called with
EditIds == { 1, 2 }

\* a row of topic_mappings: the request's columns plus the id
Row(id, req) ==
    [id |-> id,
     source_endpoint_type |-> req.source_endpoint_type,
     source_endpoint_id |-> req.source_endpoint_id,
     target_endpoint_type |-> req.target_endpoint_type,
     target_endpoint_id |-> req.target_endpoint_id,
     source_topic |-> req.source_topic,
     target_topic |-> req.target_topic,
     direction |-> req.direction,
     enabled |-> req.enabled]

\* the rows the store holds when the process starts
InitialStore ==
    << Row(1, ToZmq),
       \* broker 1, a/b  ->  ZeroMQ endpoint 99, which no configuration row defines
       Row(2, Request("Mqtt", 1, "Zmq", 99, <<"a", "b">>, <<"u">>, "MqttToZmq", TRUE)),
       Row(3, ToMqtt(FALSE)) >>

(***************************************************************************)
(* Topic pattern matcher and substitution (worker.rs).                     *)
(***************************************************************************)
\* the wildcard characters a token holds: the tokens "+" and "#" themselves,
\* and the tokens of the model with a '+' between other characters
WildcardChars(token) ==
    IF token \in {"+", "a+b", "zmq.sensors.+.temp"} THEN {"+"}
    ELSE IF token = "#" THEN {"#"}
    ELSE {}

\* str::contains(ch) on a '/'-joined topic: some token holds the character
Contains(parts, ch) == \E i \in DOMAIN parts : ch \in WildcardChars(parts[i])

RECURSIVE MatchLoop(_, _, _, _)
\* the while loop of matches_topic_pattern and the expression after it;
\* p_idx and t_idx are the 1-based positions of the code's indices
MatchLoop(pattern_parts, topic_parts, p_idx, t_idx) ==
    IF p_idx <= Len(pattern_parts) /\ t_idx <= Len(topic_parts)
    THEN IF pattern_parts[p_idx] = "#" THEN TRUE
         ELSE IF pattern_parts[p_idx] = "+" \/ pattern_parts[p_idx] = topic_parts[t_idx]
              THEN MatchLoop(pattern_parts, topic_parts, p_idx + 1, t_idx + 1)
              ELSE FALSE
    ELSE \/ (p_idx = Len(pattern_parts) + 1 /\ t_idx = Len(topic_parts) + 1)
         \/ (p_idx <= Len(pattern_parts) /\ pattern_parts[p_idx] = "#")

\* a matcher that stops at the end of the pattern
matches_prefix(pattern, topic) ==
    /\ Len(topic) >= Len(pattern)
    /\ MatchLoop(pattern, SubSeq(topic, 1, Len(pattern)), 1, 1)

\* a matcher whose `#` needs at least one more topic token
matches_rest_required(pattern, topic) ==
    /\ Len(topic) >= Len(pattern)
    /\ MatchLoop(pattern, topic, 1, 1)

matches_topic_pattern(pattern, topic) == MatchLoop(pattern, topic, 1, 1)

RECURSIVE ApplyLoop(_, _, _, _, _)
\* the for loop of apply_mapping over target_parts[k..]
ApplyLoop(target_parts, source_parts, k, src_idx, result) ==
    IF k > Len(target_parts) THEN result
    ELSE IF target_parts[k] = "+" /\ src_idx <= Len(source_parts)
         THEN ApplyLoop(target_parts, source_parts, k + 1, src_idx + 1,
                        Append(result, source_parts[src_idx]))
         ELSE IF target_parts[k] = "#"
              THEN ApplyLoop(target_parts, source_parts, k + 1,
                             IF src_idx <= Len(source_parts)
                             THEN Len(source_parts) + 1 ELSE src_idx,
                             result \o SubSeq(source_parts, src_idx, Len(source_parts)))
              ELSE ApplyLoop(target_parts, source_parts, k + 1, src_idx,
                             Append(result, target_parts[k]))

\* a substitution without the early return for wildcard-free patterns
apply_always(pattern, target, source) ==
    LET result == ApplyLoop(target, source, 1, 1, << >>)
    IN  IF result = << >> THEN target ELSE result

apply_mapping(pattern, target, source) ==
    IF ~Contains(pattern, "+") /\ ~Contains(pattern, "#")
    THEN target
    ELSE LET result == ApplyLoop(target, source, 1, 1, << >>)
         IN  IF result = << >> THEN target ELSE result

(***************************************************************************)
(* Routing predicates of the forwarding task.                              *)
(***************************************************************************)
\* source_matches (worker.rs 164-175); msg.source is "Mqtt" or "Zmq"
\* a source test that looks at the topic only
TopicOnlyMatches(m, msg) ==
    matches_topic_pattern(m.source_topic, msg.topic)

SourceMatches(m, msg) ==
    /\ m.source_endpoint_type = msg.source
    /\ m.source_endpoint_id = msg.source_id
    /\ matches_topic_pattern(m.source_topic, msg.topic)

\* a filter that also asks the direction field to agree with the message's source
FiresInDirection(m, msg) ==
    /\ m.enabled
    /\ SourceMatches(m, msg)
    /\ \/ m.direction = "Bidirectional"
       \/ (m.direction = "MqttToZmq" /\ msg.source = "Mqtt")
       \/ (m.direction = "ZmqToMqtt" /\ msg.source = "Zmq")

\* the loop's filter |m| m.enabled together with source_matches
\* a filter that lets disabled mappings through
FiresWhenDisabled(m, msg) == SourceMatches(m, msg)

MappingFires(m, msg) == m.enabled /\ SourceMatches(m, msg)

\* mqtt_cmd_txs.get(&id) / zmq_cmd_txs.get(&id) is Some: a key is inserted
\* for every enabled config of that kind
HasChannel(kind, id) ==
    \/ (kind = "Mqtt" /\ id \in MqttIds)
    \/ (kind = "Zmq" /\ id \in ZmqIds)

RECURSIVE SourceTopicsFrom(_, _, _)
SourceTopicsFrom(mappings, config_id, k) ==
    IF k > Len(mappings) THEN << >>
    ELSE (IF /\ mappings[k].enabled
             /\ mappings[k].source_endpoint_type = "Mqtt"
             /\ mappings[k].source_endpoint_id = config_id
          THEN << mappings[k].source_topic >> ELSE << >>)
         \o SourceTopicsFrom(mappings, config_id, k + 1)

\* the topics update_subscriptions collects for one MQTT broker
SourceTopics(mappings, config_id) == SourceTopicsFrom(mappings, config_id, 1)

(***************************************************************************)
(* Telemetry counters and the message_stats row.                           *)
(***************************************************************************)
record_mqtt_received(t) == [t EXCEPT !.mqtt_messages_received = @ + 1]
record_mqtt_sent(t) == [t EXCEPT !.mqtt_messages_sent = @ + 1]
record_zmq_received(t) == [t EXCEPT !.zmq_messages_received = @ + 1]
record_zmq_sent(t) == [t EXCEPT !.zmq_messages_sent = @ + 1]
\* an error path that leaves the counter alone
record_no_error(t) == t

record_error(t) == [t EXCEPT !.errors_total = @ + 1]

\* Metrics::record_latency: the vector keeps the last LatencyCapacity samples
record_latency(n) == IF n >= LatencyCapacity THEN LatencyCapacity ELSE n + 1

increment_stats(s, mqtt_received, mqtt_sent, zmq_received, zmq_sent, errors) ==
    [mqtt_received |-> s.mqtt_received + mqtt_received,
     mqtt_sent |-> s.mqtt_sent + mqtt_sent,
     zmq_received |-> s.zmq_received + zmq_received,
     zmq_sent |-> s.zmq_sent + zmq_sent,
     error_count |-> s.error_count + errors]

\* a reset that clears the two received columns only
reset_received(s) == [s EXCEPT !.mqtt_received = 0, !.zmq_received = 0]

reset_stats(s) ==
    [mqtt_received |-> 0, mqtt_sent |-> 0, zmq_received |-> 0,
     zmq_sent |-> 0, error_count |-> 0]

(***************************************************************************)
(* State.                                                                  *)
(***************************************************************************)
VARIABLES
    state,          \* BridgeCore.state
    store,          \* rows of topic_mappings, ORDER BY id
    nextId,         \* next AUTOINCREMENT id of topic_mappings
    cache,          \* BridgeCore.mappings_cache
    readers,        \* runs whose Router holds a read guard on mappings_cache
    wq,             \* clients queued in mappings_cache.write()
    running,        \* BridgeWorker.running
    handles,        \* BridgeWorker.mqtt_threads and zmq_threads: <<run, id>>
    forward_tx,     \* BridgeWorker.forward_tx: the run of the sender, 0 = None
    mqtt_cmd_txs,   \* BridgeWorker.mqtt_cmd_txs: the run of the senders, 0 = empty
    mutex,          \* holder of BridgeCore.worker (parking_lot Mutex), 0 = free
    nRuns,          \* worker sets spawned so far
    rt,             \* per run: the forwarding task (Router)
    fq,             \* per run: the inbound channel (forward_tx / forward_rx)
    wk,             \* per run and endpoint id: the worker thread
    cq,             \* per run and endpoint id: the command channel
    tele,           \* Metrics counters
    samples,        \* Metrics.latency_samples.len()
    row,            \* the message_stats row
    pc,             \* per client: position in the operation it executes
    op,             \* per client: the operation called last
    res,            \* per client: its result ("none" while it executes)
    loaded,         \* per client: mappings read from the store by the operation
    calledIn,       \* history, per client: BridgeState when start, stop or
                    \* restart was called last ("none" for other calls)
    opsStarted,     \* management-API calls issued
    msgsIn,         \* transport messages delivered
    cacheBy,        \* history: the client that wrote mappings_cache last
    call,           \* the call under examination of a function of the
                    \* program: its arguments and result
    wire,           \* per run and endpoint id: what the worker has sent on its
                    \* transport (MQTT publishes, ZeroMQ frames), in order
    lastRet         \* history: <<M'>> if reload_mappings(M') returned and
                    \* mappings_cache has not been written since, else << >>

vars == << state, store, nextId, cache, readers, wq, running, handles,
           forward_tx, mqtt_cmd_txs, mutex, nRuns, rt, fq, wk, cq, tele,
           samples, row, pc, op, res, loaded, calledIn, opsStarted, msgsIn,
           cacheBy, call, wire, lastRet >>

supervisorVars == << state, running, handles, forward_tx, mqtt_cmd_txs, mutex, nRuns >>
storeVars == << store, nextId >>
lockVars == << readers, wq >>
statVars == << tele, samples, row >>
clientVars == << pc, op, res, loaded, calledIn, opsStarted >>

NoMsg == [source |-> "none", source_id |-> 0, topic |-> << >>, payload |-> "none"]

\* a Router that was never spawned
NoRouter ==
    [pc |-> "none", msg |-> NoMsg, idx |-> 0, matched |-> FALSE,
     pubs |-> 0, egress |-> 0, errs |-> 0, snap |-> << >>, after |-> << >>]

\* a worker thread that was never spawned; held is the message the thread has
\* decoded and is sending to the Router, stream the messages the MQTT client
\* has received and the thread has not taken yet (client.get_stream)
NoWorker == [pc |-> "none", subs |-> {}, held |-> NoMsg, stream |-> << >>]

\* BridgeCore::new, Metrics::new and a database that holds the given rows
InitFrom(rows) ==
    /\ state = "Stopped"
    /\ store = rows
    /\ nextId = Len(rows) + 1
    /\ cache = << >>
    /\ readers = {}
    /\ wq = {}
    /\ running = FALSE
    /\ handles = {}
    /\ forward_tx = 0
    /\ mqtt_cmd_txs = 0
    /\ mutex = 0
    /\ nRuns = 0
    /\ rt = [r \in Runs |-> NoRouter]
    /\ fq = [r \in Runs |-> << >>]
    /\ wk = [r \in Runs |-> [id \in WorkerIds |-> NoWorker]]
    /\ cq = [r \in Runs |-> [id \in WorkerIds |-> << >>]]
    /\ wire = [r \in Runs |-> [id \in WorkerIds |-> << >>]]
    /\ tele = [mqtt_messages_received |-> 0, mqtt_messages_sent |-> 0,
               zmq_messages_received |-> 0, zmq_messages_sent |-> 0,
               errors_total |-> 0]
    /\ samples = 0
    \* the message_stats row init_database inserts
    /\ row = [mqtt_received |-> 0, mqtt_sent |-> 0, zmq_received |-> 0,
              zmq_sent |-> 0, error_count |-> 0]
    /\ pc = [c \in AllClients |-> "idle"]
    /\ op = [c \in AllClients |-> "none"]
    /\ res = [c \in AllClients |-> "none"]
    /\ loaded = [c \in AllClients |-> << >>]
    /\ calledIn = [c \in AllClients |-> "none"]
    /\ opsStarted = 0
    /\ msgsIn = 0
    /\ cacheBy = 0
    /\ lastRet = << >>

\* no function has been applied
NoCall == [fn |-> "none"]

\* the process starts on the database with the rows of InitialStore
Init == InitFrom(InitialStore) /\ call = NoCall

(***************************************************************************)
(* Channels.                                                               *)
(***************************************************************************)
\* forward_rx of run r exists: the forwarding task has not ended
RouterAlive(r) == rt[r].pc \notin {"none", "done"}

\* cmd_rx of worker (r, id) exists: the thread function has not returned
WorkerRx(r, id) == wk[r][id].pc \notin {"none", "exited"}

\* every Sender of run r's inbound channel is dropped: BridgeWorker.forward_tx
\* and the clone each worker thread owns
FwdClosed(r) ==
    /\ forward_tx # r
    /\ \A id \in WorkerIds : wk[r][id].pc \in {"none", "exited"}

\* forward_tx.send(msg).await may complete: there is room, or the receiver is gone
CanForward(r) == RouterAlive(r) => Len(fq[r]) < FwdCapacity

\* an inbound channel that hands out the newest message first
ForwardedInFront(r, msg) ==
    IF RouterAlive(r) THEN [fq EXCEPT ![r] = << msg >> \o @] ELSE fq

\* the inbound channel after forward_tx.send(msg).await (Err: msg is dropped)
Forwarded(r, msg) ==
    IF RouterAlive(r) THEN [fq EXCEPT ![r] = Append(@, msg)] ELSE fq

\* the command channels after tx.send(cmd) to worker (r, id) (Err: cmd is dropped)
Sent(r, id, cmd) ==
    IF WorkerRx(r, id) THEN [cq EXCEPT ![r][id] = Append(@, cmd)] ELSE cq

\* a write that does not wait for the read guards
WriteUnguarded == TRUE

\* mappings_cache.write().await is granted
CanWrite == readers = {}

(***************************************************************************)
(* The forwarding task (Router) of run r: worker.rs 138-221.               *)
(***************************************************************************)
\* while running_fwd.load()
RouterTop(r) ==
    /\ rt[r].pc = "top"
    /\ IF running
       THEN /\ rt' = [rt EXCEPT ![r].pc = "recv"]
            /\ fq' = fq
       ELSE /\ rt' = [rt EXCEPT ![r].pc = "done"]
            /\ fq' = [fq EXCEPT ![r] = << >>]
    /\ UNCHANGED << supervisorVars, storeVars, cache, lockVars, wk, cq,
                    statVars, clientVars, msgsIn, cacheBy, lastRet >>
    /\ UNCHANGED wire
    /\ UNCHANGED call

\* Some(msg) = forward_rx.recv(): the ingress counters
RouterRecv(r) ==
    /\ rt[r].pc = "recv"
    /\ fq[r] # << >>
    /\ LET msg == Head(fq[r])
       IN  /\ rt' = [rt EXCEPT ![r] =
                        [pc |-> "rlock", msg |-> msg, idx |-> 0, matched |-> FALSE,
                         pubs |-> 0, egress |-> 0, errs |-> 0, snap |-> << >>,
                         after |-> lastRet]]
           /\ IF msg.source = "Mqtt"
              THEN /\ tele' = record_mqtt_received(tele)
                   /\ row' = increment_stats(row, 1, 0, 0, 0, 0)
              ELSE /\ tele' = record_zmq_received(tele)
                   /\ row' = increment_stats(row, 0, 0, 1, 0, 0)
    /\ fq' = [fq EXCEPT ![r] = Tail(@)]
    /\ UNCHANGED << supervisorVars, storeVars, cache, lockVars, wk, cq,
                    samples, clientVars, msgsIn, cacheBy, lastRet >>
    /\ UNCHANGED wire
    /\ UNCHANGED call

\* the else branch: recv() yields None (no sender left), sleep 100 ms
RouterElse(r) ==
    /\ rt[r].pc = "recv"
    /\ fq[r] = << >>
    /\ FwdClosed(r)
    /\ rt' = [rt EXCEPT ![r].pc = "top"]
    /\ UNCHANGED << supervisorVars, storeVars, cache, lockVars, fq, wk, cq,
                    statVars, clientVars, msgsIn, cacheBy, lastRet >>
    /\ UNCHANGED wire
    /\ UNCHANGED call

\* let mappings = mappings_cache_fwd.read().await
RouterRead(r) ==
    /\ rt[r].pc = "rlock"
    /\ wq = {}
    /\ readers' = readers \cup {r}
    /\ rt' = [rt EXCEPT ![r].pc = "dispatch", ![r].idx = 1, ![r].snap = cache]
    /\ UNCHANGED << supervisorVars, storeVars, cache, wq, fq, wk, cq,
                    statVars, clientVars, msgsIn, cacheBy, lastRet >>
    /\ UNCHANGED wire
    /\ UNCHANGED call

\* the command a matching mapping produces
PublishCmd(m, msg) ==
    [type |-> "Publish",
     topic |-> apply_mapping(m.source_topic, m.target_topic, msg.topic),
     payload |-> msg.payload,
     topics |-> << >>]

\* one iteration of the for loop over the mappings the guard gives access to
RouterDispatch(r) ==
    /\ rt[r].pc = "dispatch"
    /\ rt[r].idx <= Len(cache)
    /\ LET m == cache[rt[r].idx]
           msg == rt[r].msg
       IN  IF MappingFires(m, msg)
           THEN IF HasChannel(m.target_endpoint_type, m.target_endpoint_id)
                THEN /\ cq' = Sent(r, m.target_endpoint_id, PublishCmd(m, msg))
                     /\ IF m.target_endpoint_type = "Mqtt"
                        THEN /\ tele' = record_mqtt_sent(tele)
                             /\ row' = increment_stats(row, 0, 1, 0, 0, 0)
                        ELSE /\ tele' = record_zmq_sent(tele)
                             /\ row' = increment_stats(row, 0, 0, 0, 1, 0)
                     /\ rt' = [rt EXCEPT ![r].idx = @ + 1, ![r].matched = TRUE,
                                         ![r].pubs = @ + 1, ![r].egress = @ + 1]
                ELSE /\ tele' = record_error(tele)
                     /\ rt' = [rt EXCEPT ![r].idx = @ + 1, ![r].matched = TRUE,
                                         ![r].errs = @ + 1]
                     /\ UNCHANGED << cq, row >>
           ELSE /\ rt' = [rt EXCEPT ![r].idx = @ + 1]
                /\ UNCHANGED << cq, tele, row >>
    /\ UNCHANGED << supervisorVars, storeVars, cache, lockVars, fq, wk,
                    samples, clientVars, msgsIn, cacheBy, lastRet >>
    /\ UNCHANGED wire
    /\ UNCHANGED call

\* after the loop: record_latency if matched, the read guard is dropped
RouterFinish(r) ==
    /\ rt[r].pc = "dispatch"
    /\ rt[r].idx > Len(cache)
    /\ samples' = IF rt[r].matched THEN record_latency(samples) ELSE samples
    /\ readers' = readers \ {r}
    /\ rt' = [rt EXCEPT ![r] = [NoRouter EXCEPT !.pc = "top"]]
    /\ UNCHANGED << supervisorVars, storeVars, cache, wq, fq, wk, cq,
                    tele, row, clientVars, msgsIn, cacheBy, lastRet >>
    /\ UNCHANGED wire
    /\ UNCHANGED call

(***************************************************************************)
(* run_mqtt_worker of run r, broker id: worker.rs 293-413.                 *)
(*                                                                         *)
(* A worker thread reads `running` at the top of each loop iteration and   *)
(* runs the iteration's body with the value it read.  The model has one    *)
(* position "loop" for a thread inside its loop: the body may run while    *)
(* the thread has not yet observed running = false, and the thread leaves  *)
(* the loop once it observes it.  Steps of a thread before its loop touch  *)
(* nothing another thread reads, so start_extended's spawn step includes   *)
(* them (SpawnedWorker).                                                   *)
(***************************************************************************)
\* while running.load() observes false: disconnect, the thread ends and
\* drops cmd_rx and its forward_tx clone
MqttExit(r, id) ==
    /\ id \in MqttIds
    /\ wk[r][id].pc = "loop"
    /\ ~running
    /\ wk' = [wk EXCEPT ![r][id] = [pc |-> "exited", subs |-> {}, held |-> NoMsg, stream |-> << >>]]
    /\ cq' = [cq EXCEPT ![r][id] = << >>]
    /\ UNCHANGED << supervisorVars, storeVars, cache, lockVars, rt, fq,
                    statVars, clientVars, msgsIn, cacheBy, lastRet >>
    /\ UNCHANGED wire
    /\ UNCHANGED call

\* the broker delivers a message on topic t: some active subscription matches
BrokerDelivers(subs, t) == \E s \in subs : matches_topic_pattern(s, t)

\* select!: stream.recv() yields a message, forward_tx.send(fwd_msg).await
MqttForwardWithin(r, id, t, p, budget) ==
    /\ id \in MqttIds
    /\ wk[r][id].pc = "loop"
    /\ msgsIn < budget
    /\ BrokerDelivers(wk[r][id].subs, t)
    /\ CanForward(r)
    /\ fq' = Forwarded(r, [source |-> "Mqtt", source_id |-> id, topic |-> t, payload |-> p])
    /\ msgsIn' = msgsIn + 1
    /\ UNCHANGED << supervisorVars, storeVars, cache, lockVars, rt, wk, cq,
                    statVars, clientVars, cacheBy, lastRet >>
    /\ UNCHANGED wire
    /\ UNCHANGED call

\* the same, for the messages the model's runs admit
MqttForward(r, id, t, p) == MqttForwardWithin(r, id, t, p, MaxMsgs)

\* the broker subscriptions after the worker handled MqttCommand::Subscribe(topics)
\* (ok: subscribe_many succeeded)
Subscribed(subs, topics, ok) ==
    IF topics # << >> /\ ok THEN subs \cup Range(topics) ELSE subs

RECURSIVE AfterCommands(_, _, _)
\* the broker subscriptions after while let Ok(cmd) = cmd_rx.try_recv()
\* handled the queued commands (a Publish goes to the broker)
AfterCommands(subs, cmds, ok) ==
    IF cmds = << >> THEN subs
    ELSE AfterCommands(IF Head(cmds).type = "Subscribe"
                       THEN Subscribed(subs, Head(cmds).topics, ok) ELSE subs,
                       Tail(cmds), ok)

\* Message::new(&topic, payload, 1) for every queued Publish, in queue order
MqttPublished(cmds) ==
    LET pubs == SelectSeq(cmds, LAMBDA cmd : cmd.type = "Publish")
    IN  [i \in 1 .. Len(pubs) |->
            [topic |-> pubs[i].topic, payload |-> pubs[i].payload, qos |-> 1]]

\* select!: the 10 ms sleep elapses and the command loop empties the channel
MqttDrain(r, id, ok) ==
    /\ id \in MqttIds
    /\ wk[r][id].pc = "loop"
    /\ cq[r][id] # << >>
    /\ wk' = [wk EXCEPT ![r][id].subs = AfterCommands(@, cq[r][id], ok)]
    /\ wire' = [wire EXCEPT ![r][id] = @ \o MqttPublished(cq[r][id])]
    /\ cq' = [cq EXCEPT ![r][id] = << >>]
    /\ UNCHANGED << supervisorVars, storeVars, cache, lockVars, rt, fq,
                    statVars, clientVars, msgsIn, cacheBy, lastRet >>
    /\ UNCHANGED call

(***************************************************************************)
(* run_zmq_worker of run r, endpoint id: worker.rs 415-573.                *)
(***************************************************************************)
\* while running.load() observes false: the thread ends
ZmqExit(r, id) ==
    /\ id \in ZmqIds
    /\ wk[r][id].pc = "loop"
    /\ ~running
    /\ wk' = [wk EXCEPT ![r][id] = [pc |-> "exited", subs |-> {}, held |-> NoMsg, stream |-> << >>]]
    /\ cq' = [cq EXCEPT ![r][id] = << >>]
    /\ UNCHANGED << supervisorVars, storeVars, cache, lockVars, rt, fq,
                    statVars, clientVars, msgsIn, cacheBy, lastRet >>
    /\ UNCHANGED wire
    /\ UNCHANGED call

\* XSUB/SUB: recv_bytes returns a frame "topic payload"; it is forwarded
ZmqRecvFrameWithin(r, id, t, p, budget) ==
    /\ id \in ZmqIds
    /\ SocketType(id) \in {"XSub", "Sub"}
    /\ wk[r][id].pc = "loop"
    /\ msgsIn < budget
    /\ CanForward(r)
    /\ fq' = Forwarded(r, [source |-> "Zmq", source_id |-> id, topic |-> t, payload |-> p])
    /\ msgsIn' = msgsIn + 1
    /\ UNCHANGED << supervisorVars, storeVars, cache, lockVars, rt, wk, cq,
                    statVars, clientVars, cacheBy, lastRet >>
    /\ UNCHANGED wire
    /\ UNCHANGED call

\* the same, for the messages the model's runs admit
ZmqRecvFrame(r, id, t, p) == ZmqRecvFrameWithin(r, id, t, p, MaxMsgs)

\* XSUB/SUB: recv_bytes returns a frame without a space: warn!, dropped
ZmqRecvBadFrame(r, id) ==
    /\ id \in ZmqIds
    /\ SocketType(id) \in {"XSub", "Sub"}
    /\ wk[r][id].pc = "loop"
    /\ UNCHANGED vars

RECURSIVE JoinTokens(_)
\* the bytes of a topic string: its tokens with '/' between them
JoinTokens(parts) ==
    IF Len(parts) <= 1 THEN parts
    ELSE << Head(parts), "/" >> \o JoinTokens(Tail(parts))

\* topic.as_bytes(), push(b' '), extend_from_slice(&payload)
ZmqFrame(topic, payload) == JoinTokens(topic) \o << " " >> \o << payload >>

\* the frames socket.send is called with, in queue order
ZmqFrames(cmds) ==
    [i \in 1 .. Len(cmds) |-> ZmqFrame(cmds[i].topic, cmds[i].payload)]

\* an XPUB socket that hands the frame it sent back to the Router
ZmqPublishEcho(r, id) ==
    /\ id \in ZmqIds
    /\ SocketType(id) \in {"XPub", "Pub"}
    /\ wk[r][id].pc = "loop"
    /\ cq[r][id] # << >>
    /\ wire' = [wire EXCEPT ![r][id] = @ \o ZmqFrames(cq[r][id])]
    /\ cq' = [cq EXCEPT ![r][id] = << >>]
    /\ fq' = Forwarded(r, [source |-> "Zmq", source_id |-> id,
                           topic |-> Head(cq[r][id]).topic,
                           payload |-> Head(cq[r][id]).payload])
    /\ UNCHANGED << supervisorVars, storeVars, cache, lockVars, rt, wk,
                    statVars, clientVars, msgsIn, cacheBy, lastRet >>
    /\ UNCHANGED call

\* XPUB/PUB: sleep 10 ms, then every queued Publish is sent on the socket
\* (wire records the frames handed to socket.send)
ZmqPublish(r, id) ==
    /\ id \in ZmqIds
    /\ SocketType(id) \in {"XPub", "Pub"}
    /\ wk[r][id].pc = "loop"
    /\ cq[r][id] # << >>
    /\ wire' = [wire EXCEPT ![r][id] = @ \o ZmqFrames(cq[r][id])]
    /\ cq' = [cq EXCEPT ![r][id] = << >>]
    /\ UNCHANGED << supervisorVars, storeVars, cache, lockVars, rt, fq, wk,
                    statVars, clientVars, msgsIn, cacheBy, lastRet >>
    /\ UNCHANGED call

(***************************************************************************)
(* BridgeCore::start: core.rs 62-100.                                      *)
(***************************************************************************)
\* the first block of start(): TRUE when start() returns Ok(()) at once
\* a start() without the early return
NeverRunning(current_state) == FALSE

AlreadyRunning(current_state) == current_state = "Running"

\* start() up to the state check; pc[c] = from is where the caller stands
StartCheck(c, from) ==
    /\ pc[c] = from
    /\ IF AlreadyRunning(state)
       THEN /\ pc' = [pc EXCEPT ![c] = "idle"]
            /\ res' = [res EXCEPT ![c] = "ok"]
       ELSE /\ pc' = [pc EXCEPT ![c] = "start_connecting"]
            /\ res' = [res EXCEPT ![c] = "none"]

\* POST /start
CallStart(c) ==
    /\ opsStarted < MaxOps
    /\ StartCheck(c, "idle")
    /\ op' = [op EXCEPT ![c] = "start"]
    /\ calledIn' = [calledIn EXCEPT ![c] = state]
    /\ opsStarted' = opsStarted + 1
    /\ UNCHANGED << supervisorVars, storeVars, cache, lockVars, rt, fq, wk, cq,
                    statVars, loaded, msgsIn, cacheBy, lastRet >>
    /\ UNCHANGED wire
    /\ UNCHANGED call

\* *self.state.write().await = BridgeState::Connecting
StartConnecting(c) ==
    /\ pc[c] = "start_connecting"
    /\ state' = "Connecting"
    /\ pc' = [pc EXCEPT ![c] = "start_load"]
    /\ UNCHANGED << running, handles, forward_tx, mqtt_cmd_txs, mutex, nRuns,
                    storeVars, cache, lockVars, rt, fq, wk, cq, statVars,
                    op, res, loaded, calledIn, opsStarted, msgsIn, cacheBy, lastRet >>
    /\ UNCHANGED wire
    /\ UNCHANGED call

\* get_mqtt_configs, get_zmq_configs, get_mappings: one of them fails (the ?
\* returns the error), or the rows are loaded and mappings_cache.write() is
\* requested
StartLoad(c, ok) ==
    /\ pc[c] = "start_load"
    /\ IF ok
       THEN /\ loaded' = [loaded EXCEPT ![c] = store]
            /\ wq' = wq \cup {c}
            /\ pc' = [pc EXCEPT ![c] = "start_write"]
            /\ res' = res
       ELSE /\ pc' = [pc EXCEPT ![c] = "idle"]
            /\ res' = [res EXCEPT ![c] = "err"]
            /\ UNCHANGED << loaded, wq >>
    /\ UNCHANGED << supervisorVars, storeVars, cache, readers, rt, fq, wk, cq,
                    statVars, op, calledIn, opsStarted, msgsIn, cacheBy, lastRet >>
    /\ UNCHANGED wire
    /\ UNCHANGED call

\* *self.mappings_cache.write().await = mappings
StartWrite(c) ==
    /\ pc[c] = "start_write"
    /\ CanWrite
    /\ cache' = loaded[c]
    /\ loaded' = [loaded EXCEPT ![c] = << >>]
    /\ wq' = wq \ {c}
    /\ cacheBy' = c
    /\ lastRet' = << >>
    /\ pc' = [pc EXCEPT ![c] = "start_reset"]
    /\ UNCHANGED << supervisorVars, storeVars, readers, rt, fq, wk, cq,
                    statVars, op, res, calledIn, opsStarted, msgsIn >>
    /\ UNCHANGED wire
    /\ UNCHANGED call

\* let _ = self.repo.reset_stats().await
StartReset(c) ==
    /\ pc[c] = "start_reset"
    /\ row' = reset_stats(row)
    /\ pc' = [pc EXCEPT ![c] = "start_spawn"]
    /\ UNCHANGED << supervisorVars, storeVars, cache, lockVars, rt, fq, wk, cq,
                    tele, samples, op, res, loaded, calledIn, opsStarted, msgsIn,
                    cacheBy, lastRet >>
    /\ UNCHANGED wire
    /\ UNCHANGED call

\* subscribe_topics of start_extended: mappings_cache.try_read() fails while a
\* writer holds or awaits the lock
InitialTopics(config_id) ==
    IF wq = {} THEN SourceTopics(cache, config_id) ELSE << >>

\* how the start-up of the spawned threads ends: for an MQTT worker
\* "subscribed" (connected, subscribe_many succeeded), "connected"
\* (subscribe_many failed) or "failed" (connect failed, the thread returns);
\* for a ZeroMQ worker "bound" or "failed" (socket or bind failed)
SpawnOutcome(mqtt, xpub) ==
    [id \in WorkerIds |->
        IF id \in MqttIds THEN mqtt
        ELSE IF SocketType(id) \in {"XPub", "Pub"} THEN xpub ELSE "bound"]

SpawnOutcomes ==
    { SpawnOutcome("subscribed", "bound"), SpawnOutcome("connected", "bound"),
      SpawnOutcome("failed", "bound"), SpawnOutcome("subscribed", "failed") }

\* a worker thread start_extended spawns, at the top of its loop or returned
SpawnedWorker(id, how) ==
    IF how = "failed" THEN [pc |-> "exited", subs |-> {}, held |-> NoMsg, stream |-> << >>]
    ELSE IF how = "connecting"
    THEN [pc |-> "connecting", subs |-> Range(InitialTopics(id)), held |-> NoMsg, stream |-> << >>]
    ELSE [pc |-> "loop",
          subs |-> IF how = "subscribed" THEN Range(InitialTopics(id)) ELSE {},
          held |-> NoMsg, stream |-> << >>]

\* self.worker.lock(); worker.start_extended(...)
StartSpawn(c, outcome) ==
    /\ pc[c] = "start_spawn"
    /\ mutex = 0
    /\ IF running
       THEN UNCHANGED << running, nRuns, forward_tx, mqtt_cmd_txs, handles, wk, rt >>
       ELSE LET r == nRuns + 1
            IN  /\ running' = TRUE
                /\ nRuns' = r
                /\ forward_tx' = r
                /\ mqtt_cmd_txs' = r
                /\ handles' = handles \cup { << r, id >> : id \in WorkerIds }
                /\ wk' = [wk EXCEPT ![r] =
                             [id \in WorkerIds |-> SpawnedWorker(id, outcome[id])]]
                /\ rt' = [rt EXCEPT ![r] = [NoRouter EXCEPT !.pc = "top"]]
    /\ pc' = [pc EXCEPT ![c] = "start_running"]
    /\ UNCHANGED << state, mutex, storeVars, cache, lockVars, fq, cq, statVars,
                    op, res, loaded, calledIn, opsStarted, msgsIn, cacheBy, lastRet >>
    /\ UNCHANGED wire
    /\ UNCHANGED call

\* *self.state.write().await = BridgeState::Running; Ok(())
StartRunning(c) ==
    /\ pc[c] = "start_running"
    /\ state' = "Running"
    /\ pc' = [pc EXCEPT ![c] = "idle"]
    /\ res' = [res EXCEPT ![c] = "ok"]
    /\ UNCHANGED << running, handles, forward_tx, mqtt_cmd_txs, mutex, nRuns,
                    storeVars, cache, lockVars, rt, fq, wk, cq, statVars,
                    op, loaded, calledIn, opsStarted, msgsIn, cacheBy, lastRet >>
    /\ UNCHANGED wire
    /\ UNCHANGED call

(***************************************************************************)
(* BridgeCore::stop and BridgeWorker::stop: core.rs 103-114, worker.rs     *)
(* 250-263.                                                                *)
(***************************************************************************)
\* self.worker.lock(); running.store(false)
StopLock(c, from) ==
    /\ pc[c] = from
    /\ mutex = 0
    /\ mutex' = c
    /\ running' = FALSE
    /\ pc' = [pc EXCEPT ![c] = "stop_join"]
    /\ res' = [res EXCEPT ![c] = "none"]

\* POST /stop
CallStop(c) ==
    /\ opsStarted < MaxOps
    /\ StopLock(c, "idle")
    /\ op' = [op EXCEPT ![c] = "stop"]
    /\ calledIn' = [calledIn EXCEPT ![c] = state]
    /\ opsStarted' = opsStarted + 1
    /\ UNCHANGED << state, handles, forward_tx, mqtt_cmd_txs, nRuns, storeVars,
                    cache, lockVars, rt, fq, wk, cq, statVars, loaded, msgsIn,
                    cacheBy, lastRet >>
    /\ UNCHANGED wire
    /\ UNCHANGED call

\* POST /restart: stop(), sleep 500 ms, start()
CallRestart(c) ==
    /\ opsStarted < MaxOps
    /\ StopLock(c, "idle")
    /\ op' = [op EXCEPT ![c] = "restart"]
    /\ calledIn' = [calledIn EXCEPT ![c] = state]
    /\ opsStarted' = opsStarted + 1
    /\ UNCHANGED << state, handles, forward_tx, mqtt_cmd_txs, nRuns, storeVars,
                    cache, lockVars, rt, fq, wk, cq, statVars, loaded, msgsIn,
                    cacheBy, lastRet >>
    /\ UNCHANGED wire
    /\ UNCHANGED call

\* a stop() that does not wait for the threads
NoneJoined == TRUE

\* every handle.join() of the two drain loops has returned
AllJoined == \A h \in handles : wk[h[1]][h[2]].pc = "exited"

\* the joins complete; self.forward_tx = None; the mutex guard is dropped
StopJoin(c) ==
    /\ pc[c] = "stop_join"
    /\ AllJoined
    /\ handles' = {}
    /\ forward_tx' = 0
    /\ mutex' = 0
    /\ pc' = [pc EXCEPT ![c] = "stop_state"]
    /\ UNCHANGED << state, running, mqtt_cmd_txs, nRuns, storeVars, cache,
                    lockVars, rt, fq, wk, cq, statVars, op, res, loaded,
                    calledIn, opsStarted, msgsIn, cacheBy, lastRet >>
    /\ UNCHANGED wire
    /\ UNCHANGED call

\* *self.state.write().await = BridgeState::Stopped; Ok(())
StopState(c) ==
    /\ pc[c] = "stop_state"
    /\ state' = "Stopped"
    /\ IF op[c] = "restart"
       THEN /\ pc' = [pc EXCEPT ![c] = "restart_sleep"]
            /\ res' = res
       ELSE /\ pc' = [pc EXCEPT ![c] = "idle"]
            /\ res' = [res EXCEPT ![c] = "ok"]
    /\ UNCHANGED << running, handles, forward_tx, mqtt_cmd_txs, mutex, nRuns,
                    storeVars, cache, lockVars, rt, fq, wk, cq, statVars,
                    op, loaded, calledIn, opsStarted, msgsIn, cacheBy, lastRet >>
    /\ UNCHANGED wire
    /\ UNCHANGED call

\* restart(): the sleep is over, self.start().await
RestartStart(c) ==
    /\ StartCheck(c, "restart_sleep")
    /\ UNCHANGED << supervisorVars, storeVars, cache, lockVars, rt, fq, wk, cq,
                    statVars, op, loaded, calledIn, opsStarted, msgsIn, cacheBy, lastRet >>
    /\ UNCHANGED wire
    /\ UNCHANGED call

(***************************************************************************)
(* The mapping handlers of the config API and BridgeCore::reload_mappings: *)
(* api/config.rs 177-234, repository.rs 354-481, core.rs 124-136.          *)
(***************************************************************************)
HasRow(id) == \E i \in DOMAIN store : store[i].id = id

\* POST /mappings: repo.add_mapping(&req), then reload_mappings()
CallAdd(c, req) ==
    /\ opsStarted < MaxOps
    /\ pc[c] = "idle"
    /\ store' = Append(store, Row(nextId, req))
    /\ nextId' = nextId + 1
    /\ pc' = [pc EXCEPT ![c] = "reload_get"]
    /\ op' = [op EXCEPT ![c] = "add_mapping"]
    /\ res' = [res EXCEPT ![c] = "none"]
    /\ calledIn' = [calledIn EXCEPT ![c] = "none"]
    /\ opsStarted' = opsStarted + 1
    /\ UNCHANGED << supervisorVars, cache, lockVars, rt, fq, wk, cq, statVars,
                    loaded, msgsIn, cacheBy, lastRet >>
    /\ UNCHANGED wire
    /\ UNCHANGED call

\* PUT /mappings/{id}: repo.update_mapping(id, &req); NotFound when no row
\* has the id, else reload_mappings()
CallUpdateWithin(c, id, req, budget) ==
    /\ opsStarted < budget
    /\ pc[c] = "idle"
    /\ IF HasRow(id)
       THEN /\ store' = [i \in DOMAIN store |->
                            IF store[i].id = id THEN Row(id, req) ELSE store[i]]
            /\ pc' = [pc EXCEPT ![c] = "reload_get"]
            /\ res' = [res EXCEPT ![c] = "none"]
       ELSE /\ store' = store
            /\ pc' = pc
            /\ res' = [res EXCEPT ![c] = "err"]
    /\ op' = [op EXCEPT ![c] = "update_mapping"]
    /\ calledIn' = [calledIn EXCEPT ![c] = "none"]
    /\ opsStarted' = opsStarted + 1
    /\ UNCHANGED << supervisorVars, nextId, cache, lockVars, rt, fq, wk, cq,
                    statVars, loaded, msgsIn, cacheBy, lastRet >>
    /\ UNCHANGED wire
    /\ UNCHANGED call

\* the same, for the calls the model's runs admit
CallUpdate(c, id, req) == CallUpdateWithin(c, id, req, MaxOps)

\* the rows left by DELETE FROM topic_mappings WHERE id = ?
RECURSIVE WithoutRow(_, _)
WithoutRow(rows, id) ==
    IF rows = << >> THEN << >>
    ELSE (IF Head(rows).id = id THEN << >> ELSE << Head(rows) >>)
         \o WithoutRow(Tail(rows), id)

\* DELETE /mappings/{id}: repo.delete_mapping(id); NotFound when no row has
\* the id, else reload_mappings()
CallDelete(c, id) ==
    /\ opsStarted < MaxOps
    /\ pc[c] = "idle"
    /\ IF HasRow(id)
       THEN /\ store' = WithoutRow(store, id)
            /\ pc' = [pc EXCEPT ![c] = "reload_get"]
            /\ res' = [res EXCEPT ![c] = "none"]
       ELSE /\ store' = store
            /\ pc' = pc
            /\ res' = [res EXCEPT ![c] = "err"]
    /\ op' = [op EXCEPT ![c] = "delete_mapping"]
    /\ calledIn' = [calledIn EXCEPT ![c] = "none"]
    /\ opsStarted' = opsStarted + 1
    /\ UNCHANGED << supervisorVars, nextId, cache, lockVars, rt, fq, wk, cq,
                    statVars, loaded, msgsIn, cacheBy, lastRet >>
    /\ UNCHANGED wire
    /\ UNCHANGED call

\* reload_mappings: self.repo.get_mappings().await? fails (the handler drops
\* the error and answers Ok), or the rows are loaded and
\* mappings_cache.write() is requested
ReloadGet(c, ok) ==
    /\ pc[c] = "reload_get"
    /\ IF ok
       THEN /\ loaded' = [loaded EXCEPT ![c] = store]
            /\ wq' = wq \cup {c}
            /\ pc' = [pc EXCEPT ![c] = "reload_write"]
            /\ res' = res
       ELSE /\ pc' = [pc EXCEPT ![c] = "idle"]
            /\ res' = [res EXCEPT ![c] = "ok"]
            /\ UNCHANGED << loaded, wq >>
    /\ UNCHANGED << supervisorVars, storeVars, cache, readers, rt, fq, wk, cq,
                    statVars, op, calledIn, opsStarted, msgsIn, cacheBy, lastRet >>
    /\ UNCHANGED wire
    /\ UNCHANGED call

\* *self.mappings_cache.write().await = mappings.clone()
ReloadWrite(c) ==
    /\ pc[c] = "reload_write"
    /\ CanWrite
    /\ cache' = loaded[c]
    /\ wq' = wq \ {c}
    /\ cacheBy' = c
    /\ lastRet' = << >>
    /\ pc' = [pc EXCEPT ![c] = "reload_subs"]
    /\ UNCHANGED << supervisorVars, storeVars, readers, rt, fq, wk, cq,
                    statVars, op, res, loaded, calledIn, opsStarted, msgsIn >>
    /\ UNCHANGED wire
    /\ UNCHANGED call

\* BridgeWorker::update_subscriptions(mappings): a Subscribe for every broker
\* of self.mqtt_cmd_txs whose topic list is not empty
update_subscriptions(mappings) ==
    IF mqtt_cmd_txs = 0 THEN cq
    ELSE [cq EXCEPT ![mqtt_cmd_txs] =
            [id \in WorkerIds |->
                IF /\ id \in MqttIds
                   /\ SourceTopics(mappings, id) # << >>
                   /\ WorkerRx(mqtt_cmd_txs, id)
                THEN Append(cq[mqtt_cmd_txs][id],
                            [type |-> "Subscribe", topic |-> << >>, payload |-> "none",
                             topics |-> SourceTopics(mappings, id)])
                ELSE cq[mqtt_cmd_txs][id]]]

\* self.worker.lock(); worker.update_subscriptions(&mappings); Ok(())
ReloadSubs(c) ==
    /\ pc[c] = "reload_subs"
    /\ mutex = 0
    /\ cq' = update_subscriptions(loaded[c])
    /\ lastRet' = IF cacheBy = c THEN << loaded[c] >> ELSE lastRet
    /\ loaded' = [loaded EXCEPT ![c] = << >>]
    /\ pc' = [pc EXCEPT ![c] = "idle"]
    /\ res' = [res EXCEPT ![c] = "ok"]
    /\ UNCHANGED << supervisorVars, storeVars, cache, lockVars, rt, fq, wk,
                    statVars, op, calledIn, opsStarted, msgsIn, cacheBy >>
    /\ UNCHANGED wire
    /\ UNCHANGED call

(***************************************************************************)
(* Next-state relation.                                                    *)
(***************************************************************************)
RouterStep(r) ==
    \/ RouterTop(r)
    \/ RouterRecv(r)
    \/ RouterElse(r)
    \/ RouterRead(r)
    \/ RouterDispatch(r)
    \/ RouterFinish(r)

WorkerStep(r, id) ==
    \/ MqttExit(r, id)
    \/ \E t \in Topics, p \in Payloads : MqttForward(r, id, t, p)
    \/ \E ok \in BOOLEAN : MqttDrain(r, id, ok)
    \/ ZmqExit(r, id)
    \/ \E t \in ZmqTopics, p \in Payloads : ZmqRecvFrame(r, id, t, p)
    \/ ZmqRecvBadFrame(r, id)
    \/ ZmqPublish(r, id)

ClientStep(c) ==
    \/ CallStart(c)
    \/ StartConnecting(c)
    \/ \E ok \in BOOLEAN : StartLoad(c, ok)
    \/ StartWrite(c)
    \/ StartReset(c)
    \/ \E outcome \in SpawnOutcomes : StartSpawn(c, outcome)
    \/ StartRunning(c)
    \/ CallStop(c)
    \/ CallRestart(c)
    \/ StopJoin(c)
    \/ StopState(c)
    \/ RestartStart(c)
    \/ \E req \in AddRequests : CallAdd(c, req)
    \/ \E id \in EditIds, req \in UpdateRequests : CallUpdate(c, id, req)
    \/ \E id \in EditIds : CallDelete(c, id)
    \/ \E ok \in BOOLEAN : ReloadGet(c, ok)
    \/ ReloadWrite(c)
    \/ ReloadSubs(c)

Next ==
    \/ \E c \in Clients : ClientStep(c)
    \/ \E r \in Runs : RouterStep(r)
    \/ \E r \in Runs, id \in WorkerIds : WorkerStep(r, id)

Spec == Init /\ [][Next]_vars

\* the forwarding task, every worker thread and every API handler are
\* scheduled again and again
FairSpec ==
    /\ Spec
    /\ \A r \in Runs : WF_vars(RouterStep(r))
    /\ \A r \in Runs : \A id \in WorkerIds : WF_vars(WorkerStep(r, id))
    /\ \A c \in Clients : WF_vars(ClientStep(c))

(***************************************************************************)
(* Scenarios: the bridge is started on a database that holds one of the    *)
(* mapping tables of ScenarioStores, and messages on the topics of         *)
(* ScenarioTopics arrive at broker 1 and at XSUB endpoint 3.  The Router   *)
(* applies matches_topic_pattern and apply_mapping to every pair of a      *)
(* stored pattern and an arriving topic.                                   *)
(***************************************************************************)
\* tokens of patterns and of topics
PatternTokens == { "a", "b", "+", "#" }
TopicTokens == { "a", "b" }

\* every pattern of one or two tokens and some of three, and the patterns the scenarios name
ScenarioPatterns ==
    { << x >> : x \in PatternTokens }
    \cup { << x, y >> : x, y \in PatternTokens }
    \cup { <<"a", "+", "c">>, <<"a", "#", "b">>, <<"+", "#", "a">>,
            <<"a", "+", "#">>, <<"a", "b", "a">>, <<"a+b">> }

\* every topic of one or two tokens and some of three, and the topics the scenarios name
ScenarioTopics ==
    { << x >> : x \in TopicTokens }
    \cup { << x, y >> : x, y \in TopicTokens }
    \cup { <<"a", "b", "a">>, <<"a", "a", "b">>, <<"a", "K", "c">>, <<"a", "b", "c", "d">>, <<"a+b">>,
           <<"sensors", "room1", "temp">>, <<"ping">> }

ScenarioPayloads == { "22.5", "P" }

\* XSUB endpoint 3, pattern  ->  broker 1, template
FromZmq(pattern, template) ==
    Request("Zmq", 3, "Mqtt", 1, pattern, template, "ZmqToMqtt", TRUE)

\* S1: broker 1, sensors/+/temp  ->  XPUB endpoint 2, zmq.sensors.+.temp
S1Store ==
    << Row(1, Request("Mqtt", 1, "Zmq", 2, <<"sensors", "+", "temp">>,
                      <<"zmq.sensors.+.temp">>, "MqttToZmq", TRUE)) >>

\* S6: broker 1, ping -> endpoint 2, ping  and  endpoint 2, ping -> broker 1, ping
S6Store ==
    << Row(1, Request("Mqtt", 1, "Zmq", 2, <<"ping">>, <<"ping">>,
                      "MqttToZmq", TRUE)),
       Row(2, Request("Zmq", 2, "Mqtt", 1, <<"ping">>, <<"ping">>,
                      "ZmqToMqtt", TRUE)) >>

\* the mapping tables: one mapping per pattern with a constant template, the
\* substitution cases, S1 and S6
ScenarioStores ==
    { << Row(1, FromZmq(pattern, <<"b">>)) >> : pattern \in ScenarioPatterns }
    \cup { << Row(1, FromZmq(<<"a", "+", "c">>, <<"x", "+", "y">>)) >>,
           << Row(1, FromZmq(<<"a", "#">>, <<"z", "#">>)) >>,
           << Row(1, FromZmq(<<"a", "b">>, <<"x", "+">>)) >>,
           << Row(1, FromZmq(<<"a+b">>, <<"x", "+">>)) >>,
           S1Store, S6Store }

\* start() on a healthy store and healthy transports, the workers, the Router
NextScenario ==
    \/ \E c \in Clients :
          \/ CallStart(c)
          \/ StartConnecting(c)
          \/ StartLoad(c, TRUE)
          \/ StartWrite(c)
          \/ StartReset(c)
          \/ StartSpawn(c, SpawnOutcome("subscribed", "bound"))
          \/ StartRunning(c)
    \/ \E r \in Runs :
          \/ RouterTop(r)
          \/ RouterRecv(r)
          \/ RouterRead(r)
          \/ RouterDispatch(r)
          \/ RouterFinish(r)
    \/ \E r \in Runs, id \in WorkerIds :
          \/ \E t \in ScenarioTopics, p \in ScenarioPayloads : MqttForward(r, id, t, p)
          \/ MqttDrain(r, id, TRUE)
          \/ \E t \in ScenarioTopics, p \in ScenarioPayloads : ZmqRecvFrame(r, id, t, p)
          \/ ZmqPublish(r, id)

SpecScenario ==
    /\ call = NoCall
    /\ \E rows \in ScenarioStores : InitFrom(rows)
    /\ [][NextScenario]_vars

(***************************************************************************)
(* A stream of messages through one run: brokers and sockets deliver       *)
(* several messages, each carrying as payload its number in the order of   *)
(* reception (msgsIn + 1), while mappings are added and                    *)
(* reloaded.  The template of a mapping names its source endpoint: m and   *)
(* n for broker 1, z and q for XSUB endpoint 3.                            *)
(***************************************************************************)
\* POST /mappings bodies: a second mapping for broker 1, and one whose
\* source pattern has `#` in front of its last token
StreamAdds ==
    { Request("Mqtt", 1, "Zmq", 2, <<"a", "+">>, <<"m">>, "MqttToZmq", TRUE),
      Request("Mqtt", 1, "Zmq", 2, <<"a", "#", "b">>, <<"n">>, "MqttToZmq", TRUE) }

StreamTopics == { <<"a", "b">> }

NextStream ==
    \/ \E c \in Clients :
          \/ CallStart(c)
          \/ StartConnecting(c)
          \/ StartLoad(c, TRUE)
          \/ StartWrite(c)
          \/ StartReset(c)
          \/ StartSpawn(c, SpawnOutcome("subscribed", "bound"))
          \/ StartRunning(c)
          \/ \E req \in StreamAdds : CallAdd(c, req)
          \/ ReloadGet(c, TRUE)
          \/ ReloadWrite(c)
          \/ ReloadSubs(c)
    \/ \E r \in Runs :
          \/ RouterTop(r)
          \/ RouterRecv(r)
          \/ RouterRead(r)
          \/ RouterDispatch(r)
          \/ RouterFinish(r)
    \/ \E r \in Runs, id \in WorkerIds :
          \/ \E t \in StreamTopics : MqttForwardWithin(r, id, t, msgsIn + 1, MaxBurst)
          \/ MqttDrain(r, id, TRUE)
          \/ \E t \in StreamTopics : ZmqRecvFrameWithin(r, id, t, msgsIn + 1, MaxBurst)
          \/ ZmqPublish(r, id)

SpecStream ==
    /\ InitFrom(<< Row(1, Request("Mqtt", 1, "Zmq", 2, <<"#">>, <<"m">>, "MqttToZmq", TRUE)),
                   Row(2, Request("Zmq", 3, "Zmq", 2, <<"#">>, <<"z">>, "ZmqToZmq", TRUE)),
                   Row(3, Request("Zmq", 3, "Mqtt", 1, <<"#">>, <<"q">>, "ZmqToMqtt", TRUE)) >>)
    /\ call = NoCall
    /\ [][NextStream]_vars

(***************************************************************************)
(* ZeroMQ framing at the level of bytes (run_zmq_worker, worker.rs         *)
(* 509-536 and 553-568).  A topic is a Rust String, a payload a Vec<u8>;   *)
(* the bytes of the model are ASCII, for which from_utf8_lossy returns     *)
(* the bytes it is given.                                                  *)
(***************************************************************************)
RECURSIVE ByteStrings(_)
\* the byte strings of at most n bytes
ByteStrings(n) ==
    IF n = 0 THEN { << >> }
    ELSE ByteStrings(n - 1)
         \cup { Append(s, b) : s \in { x \in ByteStrings(n - 1) : Len(x) = n - 1 },
                               \* the space, '/' and 'a'
                               b \in { SPACE, 47, 97 } }

\* let mut message = topic.as_bytes().to_vec(); message.push(b' ');
\* message.extend_from_slice(&payload)
frame_bytes(topic, payload) == (topic \o << SPACE >>) \o payload

RECURSIVE PositionLast(_, _, _)
\* the index of the last byte b of data from index i on, 0 if there is none
PositionLast(data, b, i) ==
    IF i > Len(data) THEN 0
    ELSE LET later == PositionLast(data, b, i + 1)
         IN  IF later # 0 THEN later ELSE IF data[i] = b THEN i ELSE 0

RECURSIVE Position(_, _, _)
\* data.iter().position(|&x| x == b) from index i on, 0 for None
Position(data, b, i) ==
    IF i > Len(data) THEN 0
    ELSE IF data[i] = b THEN i ELSE Position(data, b, i + 1)

\* the parse of an inbound frame: None without a separator, else the bytes
\* before the first space and the bytes after it
parse_frame(data) ==
    LET sep_pos == Position(data, SPACE, 1)
    IN  IF sep_pos = 0
        THEN [some |-> FALSE, topic |-> << >>, payload |-> << >>]
        ELSE [some |-> TRUE,
              topic |-> SubSeq(data, 1, sep_pos - 1),
              payload |-> SubSeq(data, sep_pos + 1, Len(data))]

\* the XPUB side builds the frame and sends it
BuildFrame ==
    /\ call.fn = "publish"
    /\ call' = [call EXCEPT !.fn = "sent",
                            !.data = frame_bytes(call.topic, call.payload)]
    /\ UNCHANGED << supervisorVars, storeVars, cache, lockVars, rt, fq, wk, cq,
                    statVars, clientVars, msgsIn, cacheBy, wire, lastRet >>

\* the XSUB side receives the frame and parses it
ParseFrame ==
    /\ call.fn = "sent"
    /\ call' = [call EXCEPT !.fn = "parsed", !.parsed = parse_frame(call.data)]
    /\ UNCHANGED << supervisorVars, storeVars, cache, lockVars, rt, fq, wk, cq,
                    statVars, clientVars, msgsIn, cacheBy, wire, lastRet >>

NextFraming == BuildFrame \/ ParseFrame

SpecFraming ==
    /\ InitFrom(InitialStore)
    \* a Publish command's topic and payload, before the frame is built
    /\ \E t \in ByteStrings(MaxBytes), p \in ByteStrings(MaxBytes) :
           call = [fn |-> "publish", topic |-> t, payload |-> p,
                   data |-> << >>, parsed |-> parse_frame(<< >>)]
    /\ [][NextFraming]_vars

(***************************************************************************)
(* TopicMapper (topic_mapper.rs): the library's lookup over a mapping      *)
(* list.  Its matches_topic_pattern and apply_topic_mapping compute what   *)
(* matches_topic_pattern and apply_mapping of worker.rs compute.           *)
(***************************************************************************)
NoneTopic == [some |-> FALSE, topic |-> << >>]
SomeTopic(t) == [some |-> TRUE, topic |-> t]

RECURSIVE MapIgnoringEnabled(_, _, _, _)
\* a lookup that does not skip disabled mappings
MapIgnoringEnabled(mappings, directions, source_topic, k) ==
    IF k > Len(mappings) THEN NoneTopic
    ELSE IF mappings[k].direction \notin directions
         THEN MapIgnoringEnabled(mappings, directions, source_topic, k + 1)
         ELSE IF matches_topic_pattern(mappings[k].source_topic, source_topic)
              THEN SomeTopic(apply_mapping(mappings[k].source_topic,
                                           mappings[k].target_topic, source_topic))
              ELSE MapIgnoringEnabled(mappings, directions, source_topic, k + 1)

RECURSIVE MapLoop(_, _, _, _)
\* for mapping in &self.mappings, from the k-th on; directions are the two
\* the function does not skip
MapLoop(mappings, directions, source_topic, k) ==
    IF k > Len(mappings) THEN NoneTopic
    ELSE IF ~mappings[k].enabled
         THEN MapLoop(mappings, directions, source_topic, k + 1)
         ELSE IF mappings[k].direction \notin directions
              THEN MapLoop(mappings, directions, source_topic, k + 1)
              ELSE IF matches_topic_pattern(mappings[k].source_topic, source_topic)
                   THEN SomeTopic(apply_mapping(mappings[k].source_topic,
                                                mappings[k].target_topic, source_topic))
                   ELSE MapLoop(mappings, directions, source_topic, k + 1)

map_mqtt_to_zmq(mappings, source_topic) ==
    MapLoop(mappings, {"MqttToZmq", "Bidirectional"}, source_topic, 1)

map_zmq_to_mqtt(mappings, source_topic) ==
    MapLoop(mappings, {"ZmqToMqtt", "Bidirectional"}, source_topic, 1)

MappingDirections == { "MqttToZmq", "ZmqToMqtt", "MqttToMqtt", "Bidirectional" }

\* the mappings a list is made of: pattern a/b, a/+ or b, any direction,
\* enabled or not
MapperPool ==
    { Row(0, Request("Mqtt", 1, "Zmq", 2, pattern, <<"x", "+">>, dir, en)) :
        pattern \in { <<"a", "b">>, <<"a", "+">>, <<"b">> },
        dir \in MappingDirections, en \in BOOLEAN }

RECURSIVE MapperLists(_)
\* the lists of at most n mappings
MapperLists(n) ==
    IF n = 0 THEN { << >> }
    ELSE MapperLists(n - 1)
         \cup { Append(l, m) : l \in { x \in MapperLists(n - 1) : Len(x) = n - 1 },
                               m \in MapperPool }

CallMapMqttToZmq ==
    /\ call.fn = "map_mqtt_to_zmq"
    /\ ~call.returned
    /\ call' = [call EXCEPT !.returned = TRUE,
                            !.result = map_mqtt_to_zmq(call.mappings, call.source_topic)]
    /\ UNCHANGED << supervisorVars, storeVars, cache, lockVars, rt, fq, wk, cq,
                    statVars, clientVars, msgsIn, cacheBy, wire, lastRet >>

CallMapZmqToMqtt ==
    /\ call.fn = "map_zmq_to_mqtt"
    /\ ~call.returned
    /\ call' = [call EXCEPT !.returned = TRUE,
                            !.result = map_zmq_to_mqtt(call.mappings, call.source_topic)]
    /\ UNCHANGED << supervisorVars, storeVars, cache, lockVars, rt, fq, wk, cq,
                    statVars, clientVars, msgsIn, cacheBy, wire, lastRet >>

NextMapper == CallMapMqttToZmq \/ CallMapZmqToMqtt

SpecMapper ==
    /\ InitFrom(InitialStore)
    \* TopicMapper::new(mappings) and the topic one of the two functions is
    \* called with
    /\ \E l \in MapperLists(MaxMappings), t \in { <<"a", "b">>, <<"b">> },
          f \in {"map_mqtt_to_zmq", "map_zmq_to_mqtt"} :
           call = [fn |-> f, mappings |-> l, source_topic |-> t,
                   returned |-> FALSE, result |-> NoneTopic]
    /\ [][NextMapper]_vars

(***************************************************************************)
(* Editing the mappings of a running bridge whose targets are the XSUB     *)
(* endpoint 3 (for broker 1's messages) and the XPUB endpoint 2 (for       *)
(* endpoint 3's frames): the only mapping with an MQTT source is deleted,  *)
(* disabled or given another topic, and reload_mappings() follows.         *)
(***************************************************************************)
ToXSub(en) == Request("Mqtt", 1, "Zmq", 3, <<"a", "b">>, <<"x">>, "MqttToZmq", en)

NextEdit ==
    \/ \E c \in Clients :
          \/ CallStart(c)
          \/ StartConnecting(c)
          \/ StartLoad(c, TRUE)
          \/ StartWrite(c)
          \/ StartReset(c)
          \/ StartSpawn(c, SpawnOutcome("subscribed", "bound"))
          \/ StartRunning(c)
          \/ \E req \in {ToXSub(FALSE), Moved} : CallUpdate(c, 1, req)
          \/ CallDelete(c, 1)
          \/ ReloadGet(c, TRUE)
          \/ ReloadWrite(c)
          \/ ReloadSubs(c)
    \/ \E r \in Runs :
          \/ RouterTop(r)
          \/ RouterRecv(r)
          \/ RouterRead(r)
          \/ RouterDispatch(r)
          \/ RouterFinish(r)
    \/ \E r \in Runs, id \in WorkerIds :
          \/ \E t \in Topics, p \in Payloads : MqttForward(r, id, t, p)
          \/ MqttDrain(r, id, TRUE)
          \/ \E t \in ZmqTopics, p \in Payloads : ZmqRecvFrame(r, id, t, p)
          \/ ZmqPublish(r, id)

SpecEdit ==
    /\ InitFrom(<< Row(1, ToXSub(TRUE)),
                   Row(2, Request("Zmq", 3, "Zmq", 2, <<"a", "b">>, <<"z">>, "ZmqToZmq", TRUE)) >>)
    /\ call = NoCall
    /\ [][NextEdit]_vars

\* every thread and task of the bridge is scheduled again and again
FairSpecEdit == SpecEdit /\ WF_vars(NextEdit)

(***************************************************************************)
(* The XSUB worker at the level of bytes: socket.recv_bytes returns any    *)
(* byte string, with or without a separator (worker.rs 509-536).  The      *)
(* store holds no mapping, so the Router only counts what it receives.     *)
(***************************************************************************)
\* Ok(data) = socket.recv_bytes(0): the frame is parsed and forwarded, or it
\* has no space and is dropped with warn!
ZmqRecvBytes(r, id, data) ==
    /\ id \in ZmqIds
    /\ SocketType(id) \in {"XSub", "Sub"}
    /\ wk[r][id].pc = "loop"
    /\ msgsIn < MaxMsgs
    /\ LET parsed == parse_frame(data)
       IN  IF parsed.some
           THEN /\ CanForward(r)
                /\ fq' = Forwarded(r, [source |-> "Zmq", source_id |-> id,
                                       topic |-> parsed.topic,
                                       payload |-> parsed.payload])
           ELSE fq' = fq
    /\ msgsIn' = msgsIn + 1
    /\ call' = [fn |-> "recv_bytes", data |-> data]
    /\ UNCHANGED << supervisorVars, storeVars, cache, lockVars, rt, wk, cq,
                    statVars, clientVars, cacheBy, wire, lastRet >>

NextInbound ==
    \/ \E c \in Clients :
          \/ CallStart(c)
          \/ StartConnecting(c)
          \/ StartLoad(c, TRUE)
          \/ StartWrite(c)
          \/ StartReset(c)
          \/ StartSpawn(c, SpawnOutcome("subscribed", "bound"))
          \/ StartRunning(c)
    \/ \E r \in Runs :
          \/ RouterTop(r)
          \/ RouterRecv(r)
          \/ RouterRead(r)
          \/ RouterFinish(r)
    \/ \E r \in Runs, id \in WorkerIds, data \in ByteStrings(MaxBytes + 1) :
          ZmqRecvBytes(r, id, data)

SpecInbound == InitFrom(<< >>) /\ call = NoCall /\ [][NextInbound]_vars

(***************************************************************************)
(* The latency reservoir with its contents (Metrics::record_latency,       *)
(* metrics.rs 70-78).  A sample is the number of the call that recorded    *)
(* it; `samples` stays the length of the vector, as in the other           *)
(* specifications.                                                         *)
(***************************************************************************)
\* a reservoir that keeps its oldest samples
keeping_oldest(latency_samples, latency_ms) ==
    IF Len(latency_samples) >= LatencyCapacity
    THEN latency_samples
    ELSE Append(latency_samples, latency_ms)

\* latency_samples after record_latency(latency_ms): remove(0) when 1000
\* samples are held, then push
latency_samples_after(latency_samples, latency_ms) ==
    IF Len(latency_samples) >= LatencyCapacity
    THEN Append(Tail(latency_samples), latency_ms)
    ELSE Append(latency_samples, latency_ms)

RecordLatency ==
    /\ call.fn = "record_latency"
    /\ call.calls < MaxSamples
    /\ call' = [call EXCEPT
                   !.latency_samples = latency_samples_after(@, call.calls + 1),
                   !.calls = @ + 1]
    /\ samples' = record_latency(samples)
    /\ UNCHANGED << supervisorVars, storeVars, cache, lockVars, rt, fq, wk, cq,
                    tele, row, clientVars, msgsIn, cacheBy, wire, lastRet >>

NextReservoir == RecordLatency

SpecReservoir ==
    /\ InitFrom(InitialStore)
    \* Metrics::new(): Vec::with_capacity(1000), empty
    /\ call = [fn |-> "record_latency", latency_samples |-> << >>, calls |-> 0]
    /\ [][NextReservoir]_vars

(***************************************************************************)
(* Backpressure.  A worker decodes a message and then awaits               *)
(* forward_tx.send(fwd_msg): in the specifications above the two are one   *)
(* step, which cannot be taken while the channel is full; here they are    *)
(* two, the worker holding the message in between, and the channel has     *)
(* FwdSlots slots.  Messages carry their number of reception as payload.   *)
(***************************************************************************)
\* a send that gives up when the channel is full
EnqueueOrDrop(r, id, capacity) ==
    /\ wk[r][id].pc = "send"
    /\ fq' = IF RouterAlive(r) /\ Len(fq[r]) >= capacity
             THEN fq ELSE Forwarded(r, wk[r][id].held)
    /\ wk' = [wk EXCEPT ![r][id].pc = "loop", ![r][id].held = NoMsg]
    /\ UNCHANGED << supervisorVars, storeVars, cache, lockVars, rt, cq,
                    statVars, clientVars, msgsIn, cacheBy, call, wire, lastRet >>

\* forward_tx.send(fwd_msg).await of either worker completes: the channel of
\* the given capacity has room, or the receiver is gone
Enqueue(r, id, capacity) ==
    /\ wk[r][id].pc = "send"
    /\ RouterAlive(r) => Len(fq[r]) < capacity
    /\ fq' = Forwarded(r, wk[r][id].held)
    /\ wk' = [wk EXCEPT ![r][id].pc = "loop", ![r][id].held = NoMsg]
    /\ UNCHANGED << supervisorVars, storeVars, cache, lockVars, rt, cq,
                    statVars, clientVars, msgsIn, cacheBy, call, wire, lastRet >>

\* select!: stream.recv() yields a message; the worker builds fwd_msg
MqttDecodeWithin(r, id, t, p, budget) ==
    /\ id \in MqttIds
    /\ wk[r][id].pc = "loop"
    /\ msgsIn < budget
    /\ BrokerDelivers(wk[r][id].subs, t)
    /\ wk' = [wk EXCEPT ![r][id].pc = "send",
                        ![r][id].held = [source |-> "Mqtt", source_id |-> id,
                                         topic |-> t, payload |-> p]]
    /\ msgsIn' = msgsIn + 1
    /\ UNCHANGED << supervisorVars, storeVars, cache, lockVars, rt, fq, cq,
                    statVars, clientVars, cacheBy, call, wire, lastRet >>

\* the same, for the messages of a burst
MqttDecode(r, id, t, p) == MqttDecodeWithin(r, id, t, p, MaxBurst)

\* XSUB/SUB: recv_bytes returns a frame "topic payload"; the worker builds
\* fwd_msg
ZmqDecodeWithin(r, id, t, p, budget) ==
    /\ id \in ZmqIds
    /\ SocketType(id) \in {"XSub", "Sub"}
    /\ wk[r][id].pc = "loop"
    /\ msgsIn < budget
    /\ wk' = [wk EXCEPT ![r][id].pc = "send",
                        ![r][id].held = [source |-> "Zmq", source_id |-> id,
                                         topic |-> t, payload |-> p]]
    /\ msgsIn' = msgsIn + 1
    /\ UNCHANGED << supervisorVars, storeVars, cache, lockVars, rt, fq, cq,
                    statVars, clientVars, cacheBy, call, wire, lastRet >>

\* the same, for the messages of a burst
ZmqDecode(r, id, t, p) == ZmqDecodeWithin(r, id, t, p, MaxBurst)

PressureStore == << Row(1, ToZmq) >>

PressureRouter(r) ==
    \/ RouterTop(r)
    \/ RouterRecv(r)
    \/ RouterRead(r)
    \/ RouterDispatch(r)
    \/ RouterFinish(r)

PressureWorker(r, id) ==
    \/ \E t \in Topics : MqttDecode(r, id, t, msgsIn + 1)
    \/ \E t \in ZmqTopics : ZmqDecode(r, id, t, msgsIn + 1)
    \/ Enqueue(r, id, FwdSlots)
    \/ ZmqPublish(r, id)

NextPressure ==
    \/ \E c \in Clients :
          \/ CallStart(c)
          \/ StartConnecting(c)
          \/ StartLoad(c, TRUE)
          \/ StartWrite(c)
          \/ StartReset(c)
          \/ StartSpawn(c, SpawnOutcome("subscribed", "bound"))
          \/ StartRunning(c)
    \/ \E r \in Runs : PressureRouter(r)
    \/ \E r \in Runs, id \in WorkerIds : PressureWorker(r, id)

SpecPressure == InitFrom(PressureStore) /\ call = NoCall /\ [][NextPressure]_vars

\* the forwarding task and every worker thread are scheduled again and again
FairSpecPressure ==
    /\ SpecPressure
    /\ \A r \in Runs : WF_vars(PressureRouter(r))
    /\ \A r \in Runs : \A id \in WorkerIds : WF_vars(PressureWorker(r, id))

(***************************************************************************)
(* Two callers.  The management API serves its requests concurrently       *)
(* (axum handlers on the tokio runtime), so the operations of BridgeCore   *)
(* interleave at their await points and at the worker mutex.  The          *)
(* specification below lets the two callers of AllClients issue start(),   *)
(* stop() and the mapping mutations at the same time.                      *)
(***************************************************************************)
NextDuo ==
    \/ \E c \in AllClients :
          \/ CallStart(c)
          \/ StartConnecting(c)
          \/ StartLoad(c, TRUE)
          \/ StartWrite(c)
          \/ StartReset(c)
          \/ StartSpawn(c, SpawnOutcome("subscribed", "bound"))
          \/ StartRunning(c)
          \/ CallStop(c)
          \/ StopJoin(c)
          \/ StopState(c)
          \/ \E req \in AddRequests : CallAdd(c, req)
          \/ \E id \in EditIds, req \in UpdateRequests : CallUpdate(c, id, req)
          \/ \E id \in EditIds : CallDelete(c, id)
          \/ ReloadGet(c, TRUE)
          \/ ReloadWrite(c)
          \/ ReloadSubs(c)
    \/ \E r \in Runs : RouterStep(r)
    \/ \E r \in Runs, id \in WorkerIds :
          \/ MqttExit(r, id)
          \/ \E t \in Topics, p \in Payloads : MqttForward(r, id, t, p)
          \/ MqttDrain(r, id, TRUE)
          \/ ZmqExit(r, id)
          \/ ZmqPublish(r, id)

SpecDuo == Init /\ [][NextDuo]_vars

(***************************************************************************)
(* The direction field.  The store holds two mappings, one inside a        *)
(* protocol (MQTT to MQTT, ZeroMQ to ZeroMQ) and one across, each with any *)
(* of the three values of MappingDirection, whether or not the value       *)
(* agrees with the endpoints.                                              *)
(***************************************************************************)
NextDirection ==
    \/ \E c \in Clients :
          \/ CallStart(c)
          \/ StartConnecting(c)
          \/ StartLoad(c, TRUE)
          \/ StartWrite(c)
          \/ StartReset(c)
          \/ StartSpawn(c, SpawnOutcome("subscribed", "bound"))
          \/ StartRunning(c)
    \/ \E r \in Runs :
          \/ RouterTop(r)
          \/ RouterRecv(r)
          \/ RouterRead(r)
          \/ RouterDispatch(r)
          \/ RouterFinish(r)
    \/ \E r \in Runs, id \in WorkerIds :
          \/ \E t \in Topics, p \in Payloads : MqttForward(r, id, t, p)
          \/ MqttDrain(r, id, TRUE)
          \/ \E t \in ZmqTopics, p \in Payloads : ZmqRecvFrame(r, id, t, p)
          \/ ZmqPublish(r, id)

SpecDirection ==
    /\ call = NoCall
    /\ \E d1, d2 \in MappingDirections :
          \/ InitFrom(<< Row(1, Request("Mqtt", 1, "Mqtt", 1, <<"a", "b">>, <<"m">>, d1, TRUE)),
                         Row(2, Request("Mqtt", 1, "Zmq", 2, <<"a", "+">>, <<"x", "+">>, d2, TRUE)) >>)
          \/ InitFrom(<< Row(1, Request("Mqtt", 1, "Mqtt", 1, <<"a", "b">>, <<"m">>, d1, TRUE)),
                         Row(2, Request("Zmq", 3, "Mqtt", 1, <<"a", "b">>, <<"y">>, d2, TRUE)) >>)
          \/ InitFrom(<< Row(1, Request("Zmq", 3, "Zmq", 2, <<"a", "b">>, <<"z">>, d1, TRUE)),
                         Row(2, Request("Mqtt", 1, "Zmq", 2, <<"a", "+">>, <<"x", "+">>, d2, TRUE)) >>)
          \/ InitFrom(<< Row(1, Request("Zmq", 3, "Zmq", 2, <<"a", "b">>, <<"z">>, d1, TRUE)),
                         Row(2, Request("Zmq", 3, "Mqtt", 1, <<"a", "b">>, <<"y">>, d2, TRUE)) >>)
    /\ [][NextDirection]_vars

(***************************************************************************)
(* Shutdown.  The thread of an MQTT worker is spawned before it connects:  *)
(* at "connecting" it awaits client.connect (worker.rs 349) and subs holds *)
(* the subscribe_topics it was given; it enters its loop when the connect  *)
(* returns Ok and returns when it fails or times out.  A worker forwards   *)
(* in two steps (decode, enqueue) into a channel of a few slots.  One      *)
(* caller starts and stops the bridge while the other edits a mapping.     *)
(***************************************************************************)
\* an enqueue that completes only while the Router still receives
EnqueueNeedsRouter(r, id, capacity) ==
    /\ RouterAlive(r)
    /\ Enqueue(r, id, capacity)

\* forward_tx.send(fwd_msg).await of a worker of the shutdown specification
ShutdownEnqueue(r, id, capacity) == Enqueue(r, id, capacity)

\* a ZeroMQ worker whose recv_bytes has no timeout and gets no frame
ZmqExitNever(r, id) == FALSE /\ ZmqExit(r, id)

\* the ZeroMQ worker's loop condition observes running = false
ShutdownZmqExit(r, id) == ZmqExit(r, id)

\* client.connect(conn_opts).await returns: Ok and subscribe_many Ok
\* ("subscribed"), Ok and subscribe_many Err ("connected"), or Err ("failed")
MqttConnect(r, id, how) ==
    /\ id \in MqttIds
    /\ wk[r][id].pc = "connecting"
    /\ wk' = [wk EXCEPT ![r][id] =
                 IF how = "failed" THEN [pc |-> "exited", subs |-> {}, held |-> NoMsg, stream |-> << >>]
                 ELSE [pc |-> "loop",
                       subs |-> IF how = "subscribed" THEN wk[r][id].subs ELSE {},
                       held |-> NoMsg, stream |-> << >>]]
    /\ cq' = IF how = "failed" THEN [cq EXCEPT ![r][id] = << >>] ELSE cq
    /\ UNCHANGED << supervisorVars, storeVars, cache, lockVars, rt, fq,
                    statVars, clientVars, msgsIn, cacheBy, call, wire, lastRet >>

\* POST /start and then POST /stop by caller 1, one PUT /mappings/1 by
\* caller 2
ShutdownClient(c) ==
    \/ c = 1 /\ op[c] = "none" /\ CallStart(c)
    \/ StartConnecting(c)
    \/ StartLoad(c, TRUE)
    \/ StartWrite(c)
    \/ StartReset(c)
    \/ StartSpawn(c, SpawnOutcome("connecting", "bound"))
    \/ StartRunning(c)
    \/ c = 1 /\ op[c] = "start" /\ CallStop(c)
    \/ StopJoin(c)
    \/ StopState(c)
    \/ c = 2 /\ op[c] = "none" /\ CallUpdateWithin(c, 1, Moved, MaxCalls)
    \/ ReloadGet(c, TRUE)
    \/ ReloadWrite(c)
    \/ ReloadSubs(c)

ShutdownExit(r, id) ==
    \/ MqttExit(r, id)
    \/ ShutdownZmqExit(r, id)

ShutdownWorker(r, id) ==
    \/ \E how \in {"subscribed", "failed"} : MqttConnect(r, id, how)
    \/ \E t \in ZmqTopics : MqttDecodeWithin(r, id, t, msgsIn + 1, MaxMsgs + 1)
    \/ \E t \in ZmqTopics : ZmqDecodeWithin(r, id, t, msgsIn + 1, MaxMsgs + 1)
    \/ ShutdownEnqueue(r, id, MaxMsgs)
    \/ MqttDrain(r, id, TRUE)
    \/ ZmqPublish(r, id)
    \/ ShutdownExit(r, id)

\* the scenario has one start(), hence one run
ShutdownRuns == {1}

NextShutdown ==
    \/ \E c \in AllClients : ShutdownClient(c)
    \/ \E r \in ShutdownRuns : RouterStep(r)
    \/ \E r \in ShutdownRuns, id \in WorkerIds : ShutdownWorker(r, id)

\* the forwarding task, the worker threads and the API handlers are scheduled
\* again and again; a worker thread evaluates its loop condition between any
\* two iterations
FairSpecShutdown ==
    /\ InitFrom(<< Row(1, ToZmq),
                   Row(2, Request("Zmq", 3, "Zmq", 2, <<"a", "b">>, <<"z">>, "ZmqToZmq", TRUE)) >>)
    /\ call = NoCall
    /\ [][NextShutdown]_vars
    /\ \A r \in ShutdownRuns : WF_vars(RouterStep(r))
    /\ \A r \in ShutdownRuns : \A id \in WorkerIds :
          WF_vars(ShutdownWorker(r, id)) /\ WF_vars(ShutdownExit(r, id))
    /\ \A c \in AllClients : WF_vars(ShutdownClient(c))

(***************************************************************************)
(* The select! of the MQTT worker (worker.rs 369-408), step by step.  The  *)
(* broker's messages wait in the client's stream.  Each iteration builds a *)
(* new 10 ms sleep: the message branch completes when the stream holds a   *)
(* message, the sleep branch only when none turned up for 10 ms.  The      *)
(* sleep branch runs `while let Ok(cmd) = cmd_rx.try_recv()`, awaiting the *)
(* broker's answer for every command, until try_recv finds the channel     *)
(* empty.  The caller repeats PUT /mappings/1 with the row's own content.  *)
(***************************************************************************)
\* the broker delivers a message to the client: it waits in the stream
BrokerPublishes(r, id, t, p) ==
    /\ id \in MqttIds
    /\ wk[r][id].pc \in {"loop", "drain", "cmd"}
    /\ msgsIn < MaxMsgs
    /\ BrokerDelivers(wk[r][id].subs, t)
    /\ wk' = [wk EXCEPT ![r][id].stream =
                 Append(@, [source |-> "Mqtt", source_id |-> id,
                            topic |-> t, payload |-> p])]
    /\ msgsIn' = msgsIn + 1
    /\ UNCHANGED << supervisorVars, storeVars, cache, lockVars, rt, fq, cq,
                    statVars, clientVars, cacheBy, call, wire, lastRet >>

\* select!: stream.recv() is ready; forward_tx.send(fwd_msg).await
SelectRecv(r, id) ==
    /\ id \in MqttIds
    /\ wk[r][id].pc = "loop"
    /\ wk[r][id].stream # << >>
    /\ CanForward(r)
    /\ fq' = Forwarded(r, Head(wk[r][id].stream))
    /\ wk' = [wk EXCEPT ![r][id].stream = Tail(@)]
    /\ UNCHANGED << supervisorVars, storeVars, cache, lockVars, rt, cq,
                    statVars, clientVars, msgsIn, cacheBy, call, wire, lastRet >>

\* select!: no message for 10 ms, the sleep branch is taken
SelectSleep(r, id) ==
    /\ id \in MqttIds
    /\ wk[r][id].pc = "loop"
    /\ wk[r][id].stream = << >>
    /\ wk' = [wk EXCEPT ![r][id].pc = "drain"]
    /\ UNCHANGED << supervisorVars, storeVars, cache, lockVars, rt, fq, cq,
                    statVars, clientVars, msgsIn, cacheBy, call, wire, lastRet >>

\* cmd_rx.try_recv() returns Ok(cmd): client.publish(msg) or
\* client.subscribe_many(..) is called and awaited
DrainTake(r, id) ==
    /\ id \in MqttIds
    /\ wk[r][id].pc = "drain"
    /\ cq[r][id] # << >>
    /\ wk' = [wk EXCEPT ![r][id].pc = "cmd",
                        ![r][id].subs = AfterCommands(@, << Head(cq[r][id]) >>, TRUE)]
    /\ wire' = [wire EXCEPT ![r][id] = @ \o MqttPublished(<< Head(cq[r][id]) >>)]
    /\ cq' = [cq EXCEPT ![r][id] = Tail(@)]
    /\ UNCHANGED << supervisorVars, storeVars, cache, lockVars, rt, fq,
                    statVars, clientVars, msgsIn, cacheBy, call, lastRet >>

\* the broker has answered: back to try_recv()
CmdDone(r, id) ==
    /\ id \in MqttIds
    /\ wk[r][id].pc = "cmd"
    /\ wk' = [wk EXCEPT ![r][id].pc = "drain"]
    /\ UNCHANGED << supervisorVars, storeVars, cache, lockVars, rt, fq, cq,
                    statVars, clientVars, msgsIn, cacheBy, call, wire, lastRet >>

\* cmd_rx.try_recv() returns Err(Empty): the loop ends, next iteration
DrainEnd(r, id) ==
    /\ id \in MqttIds
    /\ wk[r][id].pc = "drain"
    /\ cq[r][id] = << >>
    /\ wk' = [wk EXCEPT ![r][id].pc = "loop"]
    /\ UNCHANGED << supervisorVars, storeVars, cache, lockVars, rt, fq, cq,
                    statVars, clientVars, msgsIn, cacheBy, call, wire, lastRet >>

\* PUT /mappings/{id} again and again (the calls are not counted), as long as
\* fewer than CmdSlots commands wait in the channel of a broker
PutMapping(c, id, req) ==
    /\ pc[c] = "idle"
    /\ HasRow(id)
    /\ state = "Running"
    /\ \A r \in Runs : \A b \in MqttIds : Len(cq[r][b]) < CmdSlots
    /\ store' = [i \in DOMAIN store |->
                    IF store[i].id = id THEN Row(id, req) ELSE store[i]]
    /\ pc' = [pc EXCEPT ![c] = "reload_get"]
    /\ res' = [res EXCEPT ![c] = "none"]
    /\ op' = [op EXCEPT ![c] = "update_mapping"]
    /\ calledIn' = [calledIn EXCEPT ![c] = "none"]
    /\ UNCHANGED << supervisorVars, nextId, cache, lockVars, rt, fq, wk, cq,
                    statVars, loaded, opsStarted, msgsIn, cacheBy, call, wire,
                    lastRet >>

\* the handlers' steps between a call and its return
SelectHandler(c) ==
    \/ StartConnecting(c)
    \/ StartLoad(c, TRUE)
    \/ StartWrite(c)
    \/ StartReset(c)
    \/ StartSpawn(c, SpawnOutcome("subscribed", "bound"))
    \/ StartRunning(c)
    \/ ReloadGet(c, TRUE)
    \/ ReloadWrite(c)
    \/ ReloadSubs(c)

SelectWorker(r, id) ==
    \/ \E t \in ZmqTopics : BrokerPublishes(r, id, t, msgsIn + 1)
    \/ SelectRecv(r, id)
    \/ SelectSleep(r, id)
    \/ DrainTake(r, id)
    \/ CmdDone(r, id)
    \/ DrainEnd(r, id)
    \/ ZmqPublish(r, id)

NextSelect ==
    \/ \E c \in Clients : CallStart(c) \/ PutMapping(c, 1, ToZmq) \/ SelectHandler(c)
    \/ \E r \in Runs : PressureRouter(r)
    \/ \E r \in Runs, id \in WorkerIds : SelectWorker(r, id)

\* the forwarding task and the worker threads are scheduled again and again,
\* and a handler that was called runs to its end
FairSpecSelect ==
    /\ InitFrom(PressureStore)
    /\ call = NoCall
    /\ [][NextSelect]_vars
    /\ \A r \in Runs : WF_vars(PressureRouter(r))
    /\ \A r \in Runs : \A id \in WorkerIds : WF_vars(SelectWorker(r, id))
    /\ \A c \in Clients : WF_vars(SelectHandler(c))

(***************************************************************************)
(* Properties.                                                             *)
(*                                                                         *)
(* A Router that has run its for loop to the end stands at                 *)
(* pc = "dispatch" with idx > Len(cache): rt[r].pubs, .egress and .errs    *)
(* then hold what the loop did for rt[r].msg, and rt[r].snap the mappings  *)
(* the read guard gave it.                                                 *)
(***************************************************************************)

\* C1 (as claimed): for every message the Router drains, the number of
\* Publish commands it generates equals the number of enabled mappings of the
\* snapshot whose source endpoint is the message's and whose source_topic
\* pattern matches the message topic.
C1_PublishPerMatch ==
    \A r \in Runs :
        (rt[r].pc = "dispatch" /\ rt[r].idx > Len(cache)) =>
            rt[r].pubs =
                Cardinality({ i \in DOMAIN rt[r].snap :
                    /\ rt[r].snap[i].enabled
                    /\ rt[r].snap[i].source_endpoint_type = rt[r].msg.source
                    /\ rt[r].snap[i].source_endpoint_id = rt[r].msg.source_id
                    /\ matches_topic_pattern(rt[r].snap[i].source_topic,
                                             rt[r].msg.topic) })

\* C1 (amended): for every message the Router drains, the number of Publish
\* commands it generates equals the number of enabled mappings of the
\* snapshot whose source endpoint is the message's, whose source_topic
\* pattern matches the message topic and whose target endpoint has a command
\* channel; every such mapping fires (fan-out, no first-match precedence).
C1_PublishPerRoutableMatch ==
    \A r \in Runs :
        (rt[r].pc = "dispatch" /\ rt[r].idx > Len(cache)) =>
            rt[r].pubs =
                Cardinality({ i \in DOMAIN rt[r].snap :
                    /\ rt[r].snap[i].enabled
                    /\ rt[r].snap[i].source_endpoint_type = rt[r].msg.source
                    /\ rt[r].snap[i].source_endpoint_id = rt[r].msg.source_id
                    /\ matches_topic_pattern(rt[r].snap[i].source_topic,
                                             rt[r].msg.topic)
                    /\ HasChannel(rt[r].snap[i].target_endpoint_type,
                                  rt[r].snap[i].target_endpoint_id) })

\* a message of broker 1 on a/b was routed: two enabled mappings match it,
\* one of them has a command channel, one Publish was generated
C1_Witness ==
    \E r \in Runs :
        /\ rt[r].pc = "dispatch" /\ rt[r].idx > Len(cache)
        /\ rt[r].msg.source = "Mqtt" /\ rt[r].msg.topic = <<"a", "b">>
        /\ Cardinality({ i \in DOMAIN rt[r].snap :
               rt[r].snap[i].enabled /\ rt[r].snap[i].source_endpoint_id = 1 }) = 2
        /\ rt[r].pubs = 1

\* C2: each message is routed against exactly one complete mapping snapshot
\* (the cache holds the snapshot the Router read for as long as the Router
\* routes the message), and a message the Router takes from the queue after
\* reload_mappings(M') returned is routed using M' (as long as no later
\* operation wrote the cache).
C2_OneSnapshot ==
    \A r \in Runs :
        rt[r].pc = "dispatch" =>
            /\ r \in readers
            /\ cache = rt[r].snap
            /\ (rt[r].after # << >> /\ lastRet = rt[r].after) =>
                   rt[r].snap = rt[r].after[1]

\* a message taken from the queue after a reload returned is being routed
\* with the reloaded mappings, which differ from the mappings of start()
C2_Witness ==
    \E r \in Runs :
        /\ rt[r].pc = "dispatch"
        /\ rt[r].after # << >>
        /\ lastRet = rt[r].after
        /\ rt[r].snap = rt[r].after[1]
        /\ rt[r].snap # InitialStore

\* C3 (as claimed): after stop() returned, no MQTT worker thread, ZeroMQ
\* worker thread or Router task spawned by an earlier start() is alive.
C3_NothingAliveAfterStop ==
    \A c \in Clients :
        (op[c] = "stop" /\ pc[c] = "idle" /\ res[c] = "ok") =>
            /\ \A r \in Runs : ~RouterAlive(r)
            /\ \A r \in Runs, id \in WorkerIds : ~WorkerRx(r, id)

\* C4 (as claimed): every change of BridgeState follows one of the edges
\* Stopped->Connecting, Connecting->Running, Running->Stopped, X->Error,
\* Error->Stopped.
C4_StateEdges ==
    [][ state' # state =>
            \/ << state, state' >> \in { << "Stopped", "Connecting" >>,
                                         << "Connecting", "Running" >>,
                                         << "Running", "Stopped" >>,
                                         << "Error", "Stopped" >> }
            \/ state' = "Error" ]_vars

C8_SubscriptionsReplaced ==
    [][ \A r \in Runs, id \in MqttIds :
            ( /\ wk[r][id].pc = "loop" /\ wk'[r][id].pc = "loop"
              /\ cq[r][id] # << >> /\ cq'[r][id] = << >>
              /\ \E i \in DOMAIN cq[r][id] : cq[r][id][i].type = "Subscribe" )
            => LET q == cq[r][id]
                   last == CHOOSE i \in DOMAIN q :
                               /\ q[i].type = "Subscribe"
                               /\ \A j \in DOMAIN q :
                                      q[j].type = "Subscribe" => j <= i
               IN  Range(q[last].topics) \subseteq wk'[r][id].subs
                       => wk'[r][id].subs = Range(q[last].topics) ]_vars

\* C9: when the Router's loop reaches an enabled mapping that matches the
\* message and whose target endpoint has no command channel, it increments
\* the errors counter by exactly one, sends no command, counts no egress and
\* goes on with the next mapping; at the end of the loop the errors counted
\* for the message are the enabled matching mappings without a channel.
C9_UnknownTarget ==
    /\ [][ \A r \in Runs :
             ( /\ rt[r].pc = "dispatch" /\ rt[r].idx <= Len(cache)
               /\ rt'[r].idx = rt[r].idx + 1
               /\ cache[rt[r].idx].enabled
               /\ cache[rt[r].idx].source_endpoint_type = rt[r].msg.source
               /\ cache[rt[r].idx].source_endpoint_id = rt[r].msg.source_id
               /\ matches_topic_pattern(cache[rt[r].idx].source_topic,
                                        rt[r].msg.topic)
               /\ ~HasChannel(cache[rt[r].idx].target_endpoint_type,
                              cache[rt[r].idx].target_endpoint_id) )
             => /\ tele'.errors_total = tele.errors_total + 1
                /\ tele'.mqtt_messages_sent = tele.mqtt_messages_sent
                /\ tele'.zmq_messages_sent = tele.zmq_messages_sent
                /\ row'.mqtt_sent = row.mqtt_sent
                /\ row'.zmq_sent = row.zmq_sent
                /\ cq' = cq
                /\ rt'[r].pubs = rt[r].pubs
                /\ rt'[r].egress = rt[r].egress
                /\ rt'[r].pc = "dispatch" ]_vars
    /\ [](\A r \in Runs :
            (rt[r].pc = "dispatch" /\ rt[r].idx > Len(cache)) =>
                rt[r].errs =
                    Cardinality({ i \in DOMAIN rt[r].snap :
                        /\ rt[r].snap[i].enabled
                        /\ rt[r].snap[i].source_endpoint_type = rt[r].msg.source
                        /\ rt[r].snap[i].source_endpoint_id = rt[r].msg.source_id
                        /\ matches_topic_pattern(rt[r].snap[i].source_topic,
                                                 rt[r].msg.topic)
                        /\ ~HasChannel(rt[r].snap[i].target_endpoint_type,
                                       rt[r].snap[i].target_endpoint_id) }))

\* a message was routed to the end of the loop: one error was counted for the
\* mapping to endpoint 99, and the Publish of the other matching mapping is
\* in the command channel of endpoint 2
C9_Witness ==
    \E r \in Runs :
        /\ rt[r].pc = "dispatch" /\ rt[r].idx > Len(cache)
        /\ rt[r].errs = 1
        /\ tele.errors_total = 1
        /\ tele.zmq_messages_sent = 1
        /\ Len(cq[r][2]) = 1
        /\ cq[r][2][1].type = "Publish"

\* C10: a mapping with enabled = false never produces a Publish command: the
\* loop passes it without a command and without touching a counter; a
\* message whose only matching mappings are disabled ends the loop with no
\* command and no egress counted; taking a message from the queue increments
\* the received counter of its source kind by exactly one and nothing else.
C10_DisabledNeverFires ==
    /\ [][ \A r \in Runs :
             ( /\ rt[r].pc = "dispatch" /\ rt[r].idx <= Len(cache)
               /\ rt'[r].idx = rt[r].idx + 1
               /\ ~cache[rt[r].idx].enabled )
             => /\ cq' = cq
                /\ tele' = tele
                /\ row' = row
                /\ rt'[r].pubs = rt[r].pubs
                /\ rt'[r].egress = rt[r].egress ]_vars
    /\ [][ \A r \in Runs :
             (rt[r].pc = "recv" /\ rt'[r].pc = "rlock")
             => /\ cq' = cq
                /\ tele' = [tele EXCEPT
                              ![IF rt'[r].msg.source = "Mqtt"
                                THEN "mqtt_messages_received"
                                ELSE "zmq_messages_received"] = @ + 1] ]_vars
    /\ [](\A r \in Runs :
            ( /\ rt[r].pc = "dispatch" /\ rt[r].idx > Len(cache)
              /\ \A i \in DOMAIN rt[r].snap :
                     ( /\ rt[r].snap[i].source_endpoint_type = rt[r].msg.source
                       /\ rt[r].snap[i].source_endpoint_id = rt[r].msg.source_id
                       /\ matches_topic_pattern(rt[r].snap[i].source_topic,
                                                rt[r].msg.topic) )
                     => ~rt[r].snap[i].enabled )
            => rt[r].pubs = 0 /\ rt[r].egress = 0 /\ rt[r].errs = 0)

\* a frame of XSUB endpoint 3 was routed: the one mapping that matches it is
\* disabled, nothing was sent, zmq_received is 1
C10_Witness ==
    \E r \in Runs :
        /\ rt[r].pc = "dispatch" /\ rt[r].idx > Len(cache)
        /\ rt[r].msg.source = "Zmq"
        /\ \E i \in DOMAIN rt[r].snap :
               /\ ~rt[r].snap[i].enabled
               /\ rt[r].snap[i].source_endpoint_type = "Zmq"
               /\ matches_topic_pattern(rt[r].snap[i].source_topic, rt[r].msg.topic)
        /\ rt[r].pubs = 0
        /\ tele.zmq_messages_received = 1
        /\ tele.mqtt_messages_sent = 0 /\ tele.zmq_messages_sent = 0
        /\ \A id \in WorkerIds : cq[r][id] = << >>

(***************************************************************************)
(* Properties of the scenarios (SpecScenario).  A step of the Router's     *)
(* loop that generates a Publish is a step with pubs' = pubs + 1; the      *)
(* command is then the last one of the target's command channel.           *)
(***************************************************************************)

\* C12 (as claimed): for pattern a/+/c, template x/+/y and a matching source
\* a/K/c or a/b/c, the topic of the Publish is x/K/y or x/b/y: the `+` of the
\* template is replaced by the source token the pattern's `+` matched.
C12_SingleLevelSubstitution ==
    [][ \A r \in Runs :
          ( /\ rt[r].pc = "dispatch" /\ rt[r].idx <= Len(cache)
            /\ rt'[r].pubs = rt[r].pubs + 1
            /\ cache[rt[r].idx].source_topic = <<"a", "+", "c">>
            /\ cache[rt[r].idx].target_topic = <<"x", "+", "y">> )
          => LET q == cq'[r][cache[rt[r].idx].target_endpoint_id]
             IN  q[Len(q)].topic = << "x", rt[r].msg.topic[2], "y" >> ]_vars

\* C13 (as claimed): for pattern a/#, template z/# and source a/b/c/d the
\* topic of the Publish is z/b/c/d: the `#` of the template is replaced by
\* the source tokens the pattern's `#` matched.
C13_MultiLevelSubstitution ==
    [][ \A r \in Runs :
          ( /\ rt[r].pc = "dispatch" /\ rt[r].idx <= Len(cache)
            /\ rt'[r].pubs = rt[r].pubs + 1
            /\ cache[rt[r].idx].source_topic = <<"a", "#">>
            /\ cache[rt[r].idx].target_topic = <<"z", "#">>
            /\ rt[r].msg.topic = <<"a", "b", "c", "d">> )
          => LET q == cq'[r][cache[rt[r].idx].target_endpoint_id]
             IN  q[Len(q)].topic = <<"z", "b", "c", "d">> ]_vars

\* C14 (as claimed): in scenario S1 every frame XPUB endpoint 2 sends for the
\* MQTT message sensors/room1/temp with payload 22.5 has the bytes
\* `zmq.sensors.room1.temp 22.5`, and no more frames are sent than
\* mqtt_received and zmq_sent count.
C14_ScenarioS1 ==
    store = S1Store =>
        \A r \in Runs :
            /\ \A i \in DOMAIN wire[r][2] :
                   wire[r][2][i][3] = "22.5" =>
                       wire[r][2][i] = << "zmq.sensors.room1.temp", " ", "22.5" >>
            /\ Len(wire[r][2]) <= tele.mqtt_messages_received
            /\ Len(wire[r][2]) <= tele.zmq_messages_sent

\* C15: a Publish generated for a mapping whose source pattern holds no
\* wildcard character has the template as its topic, whatever the source
\* topic, and every Publish carries the payload of the inbound message.
C15_TemplateUnchanged ==
    [][ \A r \in Runs :
          ( /\ rt[r].pc = "dispatch" /\ rt[r].idx <= Len(cache)
            /\ rt'[r].pubs = rt[r].pubs + 1 )
          => LET m == cache[rt[r].idx]
                 q == cq'[r][m.target_endpoint_id]
             IN  /\ q[Len(q)].type = "Publish"
                 /\ q[Len(q)].payload = rt[r].msg.payload
                 /\ ( \A i \in DOMAIN m.source_topic :
                          WildcardChars(m.source_topic[i]) = {} )
                    => q[Len(q)].topic = m.target_topic
                 /\ ( m.source_topic = <<"a", "#">> /\ m.target_topic = <<"b">> )
                    => q[Len(q)].topic = <<"b">> ]_vars

\* C15 witness: the mapping a/b -> x/+ has produced a Publish with topic x/+
\* and payload P
C15_Witness ==
    \E r \in Runs :
        /\ Len(store) = 1
        /\ store[1].source_topic = <<"a", "b">>
        /\ store[1].target_topic = <<"x", "+">>
        /\ cq[r][1] # << >>
        /\ cq[r][1][1].topic = <<"x", "+">>
        /\ cq[r][1][1].payload = "P"

\* C16: a mapping whose pattern has no `+` and no `#` token fires for a
\* message only if the pattern equals the message's topic.
C16_ExactMatch ==
    [][ \A r \in Runs :
          ( /\ rt[r].pc = "dispatch" /\ rt[r].idx <= Len(cache)
            /\ rt'[r].pubs + rt'[r].errs = rt[r].pubs + rt[r].errs + 1
            /\ \A i \in DOMAIN cache[rt[r].idx].source_topic :
                   cache[rt[r].idx].source_topic[i] \notin {"+", "#"} )
          => cache[rt[r].idx].source_topic = rt[r].msg.topic ]_vars

\* C16 witness: the mapping with pattern a/b has fired for a message
C16_Witness ==
    \E r \in Runs :
        /\ Len(store) = 1
        /\ store[1].source_topic = <<"a", "b">>
        /\ store[1].target_topic = <<"b">>
        /\ rt[r].pc = "dispatch"
        /\ rt[r].pubs = 1

\* C17: an enabled mapping whose pattern is q/# (q without `#`, possibly
\* empty) fires for every message of its source endpoint whose leading
\* tokens match q, the topic that consists of exactly those tokens included.
C17_TerminalHash ==
    [][ \A r \in Runs :
          ( /\ rt[r].pc = "dispatch" /\ rt[r].idx <= Len(cache)
            /\ rt'[r].idx = rt[r].idx + 1
            /\ LET m == cache[rt[r].idx]
                   p == m.source_topic
                   t == rt[r].msg.topic
               IN  /\ m.enabled
                   /\ m.source_endpoint_type = rt[r].msg.source
                   /\ m.source_endpoint_id = rt[r].msg.source_id
                   /\ p[Len(p)] = "#"
                   /\ Len(t) >= Len(p) - 1
                   /\ \A i \in 1 .. (Len(p) - 1) :
                          p[i] = "+" \/ (p[i] # "#" /\ p[i] = t[i]) )
          => rt'[r].pubs + rt'[r].errs = rt[r].pubs + rt[r].errs + 1 ]_vars

\* C17 witness: the mapping with pattern a/# has fired for the topic a
C17_Witness ==
    \E r \in Runs :
        /\ Len(store) = 1
        /\ store[1].source_topic = <<"a", "#">>
        /\ rt[r].pc = "dispatch"
        /\ rt[r].msg.topic = <<"a">>
        /\ rt[r].pubs = 1

\* C18 (as claimed): a mapping whose pattern has a `#` token that is not its
\* final token fires for no message.
C18_InnerHashNeverMatches ==
    [][ \A r \in Runs :
          ( /\ rt[r].pc = "dispatch" /\ rt[r].idx <= Len(cache)
            /\ \E i \in 1 .. (Len(cache[rt[r].idx].source_topic) - 1) :
                   cache[rt[r].idx].source_topic[i] = "#" )
          => rt'[r].pubs + rt'[r].errs = rt[r].pubs + rt[r].errs ]_vars

\* C19: in scenario S6 no Publish is ever queued for or sent by MQTT broker
\* 1, the Router generates exactly one Publish (for ZMQ endpoint 2) for
\* every MQTT message on ping, and a step in which a ZeroMQ worker sends
\* frames puts nothing into the Router's inbound queue.
C19_NoSelfLoop ==
    /\ [] ( store = S6Store =>
              \A r \in Runs : cq[r][1] = << >> /\ wire[r][1] = << >> )
    /\ [][ store = S6Store =>
             \A r \in Runs :
               /\ ( /\ rt[r].pc = "dispatch" /\ rt'[r].pc = "top"
                    /\ rt[r].msg.source = "Mqtt"
                    /\ rt[r].msg.topic = <<"ping">> )
                  => rt[r].pubs = 1 /\ rt[r].errs = 0
               /\ (\E id \in ZmqIds : wire'[r][id] # wire[r][id]) => fq' = fq ]_vars

\* C19 witness: in S6 the frame `ping P` has been sent by ZMQ endpoint 2
\* and the Router is idle with nothing left in its inbound queue
C19_Witness ==
    \E r \in Runs :
        /\ store = S6Store
        /\ wire[r][2] = << <<"ping", " ", "P">> >>
        /\ rt[r].pc = "recv"
        /\ fq[r] = << >>
        /\ cq[r][1] = << >>

(***************************************************************************)
(* Properties of the stream (SpecStream).                                  *)
(***************************************************************************)

\* C11: for every target worker, the Publish commands it has emitted
\* followed by those waiting in its command queue carry, for each source
\* endpoint, the reception numbers of the source's messages in
\* non-decreasing order, whatever other sources deliver in between and
\* whenever mappings are reloaded.
C11_OrderPreserved ==
    \A r \in Runs :
        LET pending1 == SelectSeq(cq[r][1], LAMBDA cmd : cmd.type = "Publish")
            out1 == [i \in 1 .. Len(wire[r][1]) |->
                        [src |-> wire[r][1][i].topic[1], n |-> wire[r][1][i].payload]]
                    \o [i \in 1 .. Len(pending1) |->
                        [src |-> pending1[i].topic[1], n |-> pending1[i].payload]]
            out2 == [i \in 1 .. Len(wire[r][2]) |->
                        [src |-> wire[r][2][i][1], n |-> wire[r][2][i][3]]]
                    \o [i \in 1 .. Len(cq[r][2]) |->
                        [src |-> cq[r][2][i].topic[1], n |-> cq[r][2][i].payload]]
        IN  \A out \in {out1, out2} :
                \A i, j \in DOMAIN out :
                    (i < j /\ out[i].src = out[j].src) => out[i].n <= out[j].n

\* C11 witness: XPUB endpoint 2 has sent broker 1's first message, endpoint
\* 3's second and broker 1's third, the third twice because the mapping
\* added in between was reloaded before the Router took it
C11_Witness ==
    \E r \in Runs :
        /\ Len(cache) = 4
        /\ cache[4].source_topic = <<"a", "+">>
        /\ wire[r][2] = << <<"m", " ", 1>>, <<"z", " ", 2>>,
                           <<"m", " ", 3>>, <<"m", " ", 3>> >>
        /\ Len(wire[r][1]) = 1
        /\ wire[r][1][1].payload = 2

\* C20 (as claimed): every source pattern in the Mapping Cache is valid: `#`
\* stands only as the final token and `+` only as a whole token.
C20_OnlyValidPatternsCached ==
    \A k \in DOMAIN cache :
        LET p == cache[k].source_topic
        IN  \A i \in DOMAIN p :
                /\ p[i] = "#" => i = Len(p)
                /\ WildcardChars(p[i]) # {} => p[i] \in {"+", "#"}

(***************************************************************************)
(* Properties of the framing (SpecFraming).                                *)
(***************************************************************************)

\* C21: the parse of the frame built from a topic without a space byte and
\* any payload is that topic and that payload.
C21_FramingRoundTrip ==
    ( call.fn = "parsed" /\ SPACE \notin Range(call.topic) )
    => /\ call.parsed.some
       /\ call.parsed.topic = call.topic
       /\ call.parsed.payload = call.payload

\* C21 witness: a frame whose payload holds a space has been parsed back to
\* its topic a and its payload
C21_Witness ==
    /\ call.fn = "parsed"
    /\ call.topic = << 97 >>
    /\ call.payload = << SPACE, 97 >>
    /\ call.data = << 97, SPACE, SPACE, 97 >>
    /\ call.parsed.topic = << 97 >>

(***************************************************************************)
(* Properties of TopicMapper (SpecMapper).                                 *)
(***************************************************************************)

\* C22: map_mqtt_to_zmq (map_zmq_to_mqtt) returns None when the list has no
\* enabled mapping of direction MqttToZmq (ZmqToMqtt) or Bidirectional whose
\* pattern matches the topic, and else the rewritten topic of such a mapping.
C22_MapperLookup ==
    call.returned =>
        LET wanted == IF call.fn = "map_mqtt_to_zmq" THEN "MqttToZmq" ELSE "ZmqToMqtt"
            found == { k \in DOMAIN call.mappings :
                         /\ call.mappings[k].enabled
                         /\ call.mappings[k].direction \in {wanted, "Bidirectional"}
                         /\ matches_topic_pattern(call.mappings[k].source_topic,
                                                  call.source_topic) }
        IN  IF found = {} THEN ~call.result.some
            ELSE /\ call.result.some
                 /\ \E k \in found :
                        call.result.topic =
                            apply_mapping(call.mappings[k].source_topic,
                                          call.mappings[k].target_topic,
                                          call.source_topic)

\* C22 witness: map_zmq_to_mqtt has passed over a disabled and over an
\* MqttToZmq mapping that match, found nothing, and returned None
C22_Witness ==
    /\ call.fn = "map_zmq_to_mqtt"
    /\ call.returned
    /\ Len(call.mappings) = 2
    /\ ~call.mappings[1].enabled
    /\ call.mappings[1].direction = "Bidirectional"
    /\ call.mappings[1].source_topic = <<"a", "b">>
    /\ call.mappings[2].enabled
    /\ call.mappings[2].direction = "MqttToZmq"
    /\ call.mappings[2].source_topic = <<"a", "+">>
    /\ call.source_topic = <<"a", "b">>
    /\ ~call.result.some

(***************************************************************************)
(* Properties of the edited bridge (SpecEdit, FairSpecEdit).               *)
(***************************************************************************)

\* C23 (as claimed): the step of reload_mappings() that updates the
\* subscriptions appends, for every MQTT worker of the current run that is
\* in its loop, exactly one Subscribe command to the worker's queue, and the
\* command carries the enabled source topics of the loaded snapshot for that
\* broker, the empty list included.
C23_SubscribePerReload ==
    [][ \A c \in Clients :
          ( pc[c] = "reload_subs" /\ pc'[c] = "idle" /\ mqtt_cmd_txs # 0 )
          => \A id \in MqttIds :
                wk[mqtt_cmd_txs][id].pc = "loop"
                => LET q == cq'[mqtt_cmd_txs][id]
                   IN  /\ Len(q) = Len(cq[mqtt_cmd_txs][id]) + 1
                       /\ q[Len(q)].type = "Subscribe"
                       /\ q[Len(q)].topics = SourceTopics(loaded[c], id) ]_vars

\* C27 (as claimed): a Publish command waiting in the queue of the XPUB
\* worker 2 or of the XSUB worker 3 leads to a frame sent by that worker.
C27_PublishEmitted ==
    \A r \in Runs : \A id \in ZmqIds :
        ( \E i \in DOMAIN cq[r][id] : cq[r][id][i].type = "Publish" )
        ~> ( wire[r][id] # << >> )

(***************************************************************************)
(* Properties of the Router's error and latency accounting (Spec).         *)
(***************************************************************************)

\* C26 (as claimed): when a mapping fires for a message and the worker of
\* its target endpoint has exited, so that its command receiver is gone,
\* the Router's step for that mapping increments the errors counter.
C26_ExitedTargetCounted ==
    [][ \A r \in Runs :
          ( /\ rt[r].pc = "dispatch" /\ rt[r].idx <= Len(cache)
            /\ rt'[r].idx = rt[r].idx + 1
            /\ MappingFires(cache[rt[r].idx], rt[r].msg)
            /\ HasChannel(cache[rt[r].idx].target_endpoint_type,
                          cache[rt[r].idx].target_endpoint_id)
            /\ wk[r][cache[rt[r].idx].target_endpoint_id].pc = "exited" )
          => tele'.errors_total = tele.errors_total + 1 ]_vars

\* C29 (as claimed): when the Router has gone through the mappings for a
\* message it appends one sample to the latency reservoir if it dispatched
\* at least one Publish for the message, and none otherwise.
C29_LatencyPerDispatch ==
    [][ \A r \in Runs :
          ( rt[r].pc = "dispatch" /\ rt'[r].pc = "top" )
          => samples' = IF rt[r].pubs >= 1 THEN samples + 1 ELSE samples ]_vars

(***************************************************************************)
(* Properties of the XSUB worker's inbound frames (SpecInbound).           *)
(***************************************************************************)

\* C28 (as claimed): the step in which the worker receives a frame without
\* a space byte enqueues no ForwardMessage, leaves the received counters as
\* they are and increments the errors counter by one.
C28_BadFrameCounted ==
    [][ ( /\ msgsIn' = msgsIn + 1
          /\ call'.fn = "recv_bytes"
          /\ SPACE \notin Range(call'.data) )
        => /\ fq' = fq
           /\ tele'.mqtt_messages_received = tele.mqtt_messages_received
           /\ tele'.zmq_messages_received = tele.zmq_messages_received
           /\ tele'.errors_total = tele.errors_total + 1 ]_vars

(***************************************************************************)
(* Properties of the latency reservoir (SpecReservoir).                    *)
(***************************************************************************)

\* C30: after k calls of record_latency the reservoir holds min(k, 1000)
\* samples, never more than 1000, and they are the samples of the last
\* min(k, 1000) calls in the order of the calls.
C30_LastSamplesKept ==
    LET k == call.calls
        held == call.latency_samples
    IN  /\ Len(held) <= LatencyCapacity
        /\ Len(held) = IF k <= LatencyCapacity THEN k ELSE LatencyCapacity
        /\ samples = Len(held)
        /\ \A i \in DOMAIN held : held[i] = k - Len(held) + i

\* C30 witness: two calls beyond the capacity, the two oldest samples are gone
C30_Witness ==
    /\ call.calls = LatencyCapacity + 2
    /\ Len(call.latency_samples) = LatencyCapacity
    /\ call.latency_samples[1] = 3
    /\ call.latency_samples[LatencyCapacity] = LatencyCapacity + 2

(***************************************************************************)
(* Properties of the backpressure (SpecPressure, FairSpecPressure).        *)
(***************************************************************************)

\* C24: the inbound channel never holds more messages than its capacity,
\* and every message a worker has decoded is eventually in the channel: a
\* worker that finds it full waits and does not drop the message.
C24_InboundBounded ==
    /\ [] ( \A r \in Runs : Len(fq[r]) <= FwdSlots )
    /\ \A n \in 1 .. (MaxBurst + 1) :
          ( \E r \in Runs, id \in WorkerIds :
                wk[r][id].pc = "send" /\ wk[r][id].held.payload = n )
          ~> ( \E r \in Runs : \E i \in DOMAIN fq[r] : fq[r][i].payload = n )

\* C24 witness: the channel is full and a worker holds a decoded message it
\* cannot enqueue yet
C24_Witness ==
    \E r \in Runs, id \in WorkerIds :
        /\ Len(fq[r]) = FwdSlots
        /\ rt[r].pc \notin {"none", "done"}
        /\ wk[r][id].pc = "send"
        /\ wk[r][id].held.payload = FwdSlots + 1

\* C25 (as claimed): no command channel ever holds more pending commands
\* than a fixed capacity.
C25_CommandQueueBounded ==
    \A r \in Runs : \A id \in WorkerIds : Len(cq[r][id]) <= CmdSlots

(***************************************************************************)
(* Properties of the supervisor's life cycle, continued (Spec).            *)
(***************************************************************************)

\* C37 (as claimed): once start() has returned, with Ok or with Err, the
\* bridge is not in state Connecting: the state is Running, Error or
\* Stopped.
C37_NotLeftConnecting ==
    \A c \in Clients :
        (op[c] \in {"start", "restart"} /\ pc[c] = "idle" /\ res[c] # "none")
        => state \in {"Running", "Error", "Stopped"}

\* C33 (as claimed): once stop() has returned the supervisor holds no
\* channel sender, neither BridgeWorker.forward_tx nor an entry of
\* BridgeWorker.mqtt_cmd_txs, so that update_subscriptions has no worker
\* channel to send a Subscribe to.
C33_NoSenderAfterStop ==
    \A c \in Clients :
        (op[c] = "stop" /\ pc[c] = "idle" /\ res[c] = "ok")
        => /\ forward_tx = 0
           /\ mqtt_cmd_txs = 0

\* C38 (as claimed): the Router task of a run does not stay alive beside the
\* Router of a later run: once a later run has been spawned, the earlier
\* Router has terminated or terminates.
C38_EarlierRouterEnds ==
    \A r \in Runs : (nRuns > r) ~> (rt[r].pc = "done")

(***************************************************************************)
(* Properties of concurrent management calls (SpecDuo).                    *)
(***************************************************************************)

\* C35 (as claimed): whenever no supervisor operation is in progress, the
\* state Running implies that the worker set runs (BridgeWorker.running is
\* true).
C35_RunningMeansRunning ==
    ( /\ \A c \in AllClients : pc[c] = "idle"
      /\ state = "Running" )
    => running

\* C36 (as claimed): when the mapping mutations the callers issued, each
\* followed by its reload_mappings(), have all returned, the mapping cache
\* equals the rows of the configuration store.
C36_CacheEqualsStore ==
    ( \A c \in AllClients :
          /\ op[c] \in {"add_mapping", "update_mapping", "delete_mapping"}
          /\ pc[c] = "idle" )
    => cache = store

\* C39 (as claimed): the subscription set an MQTT worker is spawned with is
\* the set of source topics of the enabled mappings with source (MQTT, its
\* id) in the snapshot start() wrote to the mapping cache, whatever the
\* other caller and the Router are doing.
C39_SpawnedWithSnapshotTopics ==
    [][ \A c \in AllClients :
            ( /\ pc[c] = "start_spawn" /\ pc'[c] = "start_running"
              /\ nRuns' # nRuns
              /\ cacheBy = c )
            => \A id \in MqttIds :
                   wk'[nRuns'][id].subs = Range(SourceTopics(cache, id)) ]_vars

(***************************************************************************)
(* Properties of the direction field (SpecDirection).                      *)
(***************************************************************************)

\* C34: what the Router dispatches for a mapping and a message is a
\* function of the mapping's source endpoint, target endpoint, source
\* topic, target topic and enabled flag: an enabled mapping whose source
\* endpoint and pattern match the message and whose target has a channel
\* yields one Publish to the target, within a protocol as across, and any
\* other mapping yields nothing, whatever its direction field holds.
C34_DirectionIgnored ==
    [][ \A r \in Runs :
            (rt[r].pc = "dispatch" /\ rt'[r].pc = "dispatch" /\ rt'[r].idx # rt[r].idx)
            => LET m == cache[rt[r].idx]
                   msg == rt[r].msg
                   binds == /\ m.enabled
                            /\ m.source_endpoint_type = msg.source
                            /\ m.source_endpoint_id = msg.source_id
                            /\ matches_topic_pattern(m.source_topic, msg.topic)
                            /\ HasChannel(m.target_endpoint_type, m.target_endpoint_id)
               IN  cq' = IF binds
                         THEN [cq EXCEPT ![r][m.target_endpoint_id] =
                                 Append(@, [type |-> "Publish",
                                            topic |-> apply_mapping(m.source_topic,
                                                                    m.target_topic,
                                                                    msg.topic),
                                            payload |-> msg.payload,
                                            topics |-> << >>])]
                         ELSE cq ]_vars

\* C34 witness: a ZeroMQ-to-ZeroMQ mapping whose direction field says
\* MqttToZmq has produced its Publish for the XPUB endpoint
C34_Witness ==
    \E r \in Runs :
        /\ cache # << >>
        /\ cache[1].source_endpoint_type = "Zmq"
        /\ cache[1].target_endpoint_type = "Zmq"
        /\ cache[1].direction = "MqttToZmq"
        /\ rt[r].pc = "dispatch" /\ rt[r].idx = 2
        /\ rt[r].msg.source = "Zmq"
        /\ cq[r][2] # << >>
        /\ cq[r][2][Len(cq[r][2])].topic = <<"z">>

(***************************************************************************)
(* Properties of the shutdown (FairSpecShutdown).                          *)
(***************************************************************************)

C40_StopTerminates ==
    (\E c \in AllClients : op[c] = "stop" /\ pc[c] # "idle")
    ~> (\E c \in AllClients :
            op[c] = "stop" /\ pc[c] = "idle" /\ res[c] = "ok" /\ state = "Stopped")

\* C40 witness: stop() waits for the threads while a worker waits to enqueue
\* onto the full inbound channel and the other caller's reload_mappings()
\* is queued for the mapping cache
C40_Witness ==
    \E r \in Runs, id \in WorkerIds :
        /\ pc[1] = "stop_join"
        /\ pc[2] = "reload_write"
        /\ RouterAlive(r)
        /\ wk[r][id].pc = "send"
        /\ Len(fq[r]) = MaxMsgs

(***************************************************************************)
(* Properties of the MQTT worker's select! (FairSpecSelect).               *)
(***************************************************************************)

\* C32 (as claimed): in a running MQTT worker, while commands wait in the
\* command channel the worker eventually takes the next one out and
\* processes it (the channel is first-in first-out, so every command gets
\* its turn), and every message the broker has delivered is eventually
\* forwarded, whatever keeps arriving on the other side.
C32_NoStarvation ==
    /\ \A r \in Runs : \A id \in MqttIds :
          (wk[r][id].pc \in {"loop", "drain"} /\ cq[r][id] # << >>)
          ~> (wk[r][id].pc = "cmd")
    /\ \A n \in 1 .. (MaxMsgs + 1) :
          (\E r \in Runs, id \in MqttIds :
              \E i \in DOMAIN wk[r][id].stream : wk[r][id].stream[i].payload = n)
          ~> (\A r \in Runs, id \in MqttIds :
                 \A i \in DOMAIN wk[r][id].stream : wk[r][id].stream[i].payload # n)

====
